---- MODULE Spec2Model ----
(***************************************************************************)
(* Movie Matchmaker: the hybrid recommendation engine.                     *)
(*                                                                         *)
(* One getRecommendations call is modelled from its entry (the form        *)
(* submit, a mood chip, or the legacy getMovieRecommendations export) to   *)
(* its return.  Every await of the call is one step; the responses of the  *)
(* generative service and of the catalog are drawn at the step that        *)
(* awaits them.                                                            *)
(*                                                                         *)
(* Numbers: vote_average is kept in tenths (vote_average * 10) and the     *)
(* heuristic score in hundredths, so that Math.round is computed exactly.  *)
(***************************************************************************)
EXTENDS Integers, Sequences, FiniteSets, TLC

VARIABLES
    pc,               \* position of the getRecommendations call
    userInput,        \* the query text, a sequence of word chunks and spaces
    options,          \* RecommendationOptions of the call
    analysis,         \* AnalyzedInput of the call
    GEMINI_API_KEY,   \* TRUE iff the generative-service key is set
    genAI,            \* TRUE iff the lazily created client exists
    freshContext,     \* Undefined or [list |-> the recent titles]
    aiResult,         \* GeminiRecommendationResult
    aiIdx,            \* index of the next candidate of processAIRecommendations
    recommendations,  \* the recommendations array of getRecommendations
    heuristicResults, \* the result of getHeuristicRecommendations
    returned,         \* the list getRecommendations returned
    calls,            \* number of external calls issued by this call, per kind
    aiPrompt,         \* Undefined or the prompt of the call's AI request
    gateway,          \* the gateway operation called on its own, with its
                      \* arguments, the responses it got and what it gave
    movieGenreMap,    \* Null or the cached genre map (name -> id) of movies
    tvGenreMap,       \* Null or the cached genre map (name -> id) of TV
    genreIdToNameCache, \* Null or the cached map id -> name of both kinds
    searches,         \* the searchMedia calls: where each one is, and what
                      \* its getGenreMaps call requested and got
    genreRequests,    \* the genre-list requests issued and how each one
                      \* ended, in order
    foundMedia,       \* what searchByTitle gave for the current candidate
    pending,          \* the enrichment sub-calls of the build not yet settled
    settled,          \* the enrichment sub-calls of the build that settled
    log               \* the requests issued and completed while the AI
                      \* candidates are resolved, in order

\* the genre caches of the gateway module and the searchMedia calls under way
cacheVars == <<movieGenreMap, tvGenreMap, genreIdToNameCache, searches,
               genreRequests>>

\* the build of a record under way
buildVars == <<foundMedia, pending, settled, log>>

vars == <<pc, userInput, options, analysis, GEMINI_API_KEY, genAI, freshContext,
          aiResult, aiIdx, recommendations, heuristicResults, returned, calls,
          aiPrompt, gateway, movieGenreMap, tvGenreMap, genreIdToNameCache,
          searches, genreRequests, foundMedia, pending, settled, log>>

----------------------------------------------------------------------------
(* Bounds of the model *)

\* catalog ids are 1..MaxCatalogId
MaxCatalogId == 12
\* the free-text search query answers with ids among 1..MaxSearchId
MaxSearchId == 2
\* the generative service answers with at most MaxParsed list entries
MaxParsed == 6
\* the now-playing endpoint answers with at most MaxRecent titles
MaxRecent == 16
\* at most MaxSearches searchMedia calls are made, in any interleaving
MaxSearches == 3

(* Program constants *)

MinAIResults == 3
MaxResults == 7
MaxHeuristicItems == 10
MaxAIRecommendations == 5
RecentLimit == 15
AIBaseScore == 85
HeuristicBaseScore == 70
MinMatchPercentage == 30
ANIMATION_GENRE_ID == 16
MinWords == 3

----------------------------------------------------------------------------
(* Helpers on sequences and numbers *)

Min(a, b) == IF a < b THEN a ELSE b

Range(a, b) == [i \in 1..(b - a + 1) |-> a + i - 1]

\* Array.prototype.slice(0, n)
Slice(s, n) == SubSeq(s, 1, Min(n, Len(s)))

Ids(s) == {s[i].id : i \in 1..Len(s)}

\* Math.round of a non-negative number given in hundredths
Round100(x) == (x + 50) \div 100

----------------------------------------------------------------------------
(* The query text.  A text is a sequence of chunks: " " is one space, "w" a *)
(* word holding no keyword of the analyzer, "new" the recency word new; any *)
(* other chunk is one character.                                            *)

Queries ==
    { <<"w">>,
      <<"w", " ", " ", "w">>,
      <<"w", " ", "w", " ", "w">>,
      <<"new", " ", "w", " ", "w">> }

\* every prompt of MOOD_CHIPS: three words or more, no recency word
MoodChipPrompt == <<"w", " ", "w", " ", "w">>

MediaTypes == {"movie", "tv", "anime"}

RECURSIVE TrimStart(_)
TrimStart(s) ==
    IF s # <<>> /\ Head(s) = " " THEN TrimStart(Tail(s)) ELSE s

RECURSIVE TrimEnd(_)
TrimEnd(s) ==
    IF s # <<>> /\ s[Len(s)] = " " THEN TrimEnd(SubSeq(s, 1, Len(s) - 1)) ELSE s

\* String.prototype.trim
Trim(s) == TrimEnd(TrimStart(s))

\* s.split(' ').length: one piece more than there are single spaces
SplitLength(s) == Cardinality({i \in 1..Len(s) : s[i] = " "}) + 1

\* the guard of handleSubmit
TooShort(input) == SplitLength(Trim(input)) < MinWords

----------------------------------------------------------------------------
(* The analyzer.  It reads the text character by character: Expand gives    *)
(* the characters of a text, a keyword is the sequence of its characters.   *)

\* the characters of a chunk of a text ("w" is the one letter w)
Chars(chunk) == IF chunk = "new" THEN <<"n", "e", "w">> ELSE <<chunk>>

RECURSIVE Expand(_)
Expand(text) ==
    IF text = <<>> THEN <<>> ELSE Chars(Head(text)) \o Expand(Tail(text))

LowerChar(c) ==
    CASE c = "A" -> "a"
      [] c = "B" -> "b"
      [] c = "C" -> "c"
      [] c = "D" -> "d"
      [] c = "E" -> "e"
      [] c = "F" -> "f"
      [] c = "G" -> "g"
      [] c = "H" -> "h"
      [] c = "I" -> "i"
      [] c = "J" -> "j"
      [] c = "K" -> "k"
      [] c = "L" -> "l"
      [] c = "M" -> "m"
      [] c = "N" -> "n"
      [] c = "O" -> "o"
      [] c = "P" -> "p"
      [] c = "Q" -> "q"
      [] c = "R" -> "r"
      [] c = "S" -> "s"
      [] c = "T" -> "t"
      [] c = "U" -> "u"
      [] c = "V" -> "v"
      [] c = "W" -> "w"
      [] c = "X" -> "x"
      [] c = "Y" -> "y"
      [] c = "Z" -> "z"
      [] OTHER -> c

\* String.prototype.toLowerCase of a text given by its characters
LowerCaseText(text) == [i \in 1..Len(text) |-> LowerChar(text[i])]

\* String.prototype.includes
Includes(text, keyword) ==
    \E i \in 0..(Len(text) - Len(keyword)) :
        SubSeq(text, i + 1, i + Len(keyword)) = keyword

\* text.split(/\s+/): the pieces between the runs of whitespace; a text that
\* starts or ends with whitespace has an empty first or last piece
RECURSIVE SplitWhitespace(_, _, _)
SplitWhitespace(text, piece, pieces) ==
    IF text = <<>> THEN Append(pieces, piece)
    ELSE IF Head(text) # " " THEN
         SplitWhitespace(Tail(text), Append(piece, Head(text)), pieces)
    ELSE IF Len(text) > 1 /\ text[2] = " " THEN
         SplitWhitespace(Tail(text), piece, pieces)
    ELSE SplitWhitespace(Tail(text), <<>>, Append(pieces, piece))

genreKeywords ==
    << [tag |-> "action",
        keywords |->
          << <<"a", "c", "t", "i", "o", "n">>, <<"f", "i", "g", "h", "t">>,
             <<"e", "x", "p", "l", "o", "s", "i", "o", "n">>,
             <<"a", "d", "v", "e", "n", "t", "u", "r", "e">>,
             <<"e", "x", "c", "i", "t", "i", "n", "g">>,
             <<"b", "a", "t", "t", "l", "e">> >>],
       [tag |-> "thriller",
        keywords |->
          << <<"t", "h", "r", "i", "l", "l", "e", "r">>,
             <<"s", "u", "s", "p", "e", "n", "s", "e">>,
             <<"t", "e", "n", "s", "i", "o", "n">>,
             <<"m", "y", "s", "t", "e", "r", "y">>,
             <<"n", "a", "i", "l", "-", "b", "i", "t", "i", "n", "g">> >>],
       [tag |-> "drama",
        keywords |->
          << <<"d", "r", "a", "m", "a">>,
             <<"e", "m", "o", "t", "i", "o", "n", "a", "l">>,
             <<"l", "i", "f", "e">>,
             <<"r", "e", "l", "a", "t", "i", "o", "n", "s", "h", "i", "p">>,
             <<"t", "o", "u", "c", "h", "i", "n", "g">>,
             <<"p", "o", "w", "e", "r", "f", "u", "l">> >>],
       [tag |-> "sci-fi",
        keywords |->
          << <<"s", "c", "i", "-", "f", "i">>,
             <<"s", "c", "i", "e", "n", "c", "e", " ", "f", "i", "c", "t", "i", "o", "n">>,
             <<"f", "u", "t", "u", "r", "e">>, <<"s", "p", "a", "c", "e">>,
             <<"t", "e", "c", "h", "n", "o", "l", "o", "g", "y">>,
             <<"d", "y", "s", "t", "o", "p", "i", "a">> >>],
       [tag |-> "horror",
        keywords |->
          << <<"h", "o", "r", "r", "o", "r">>, <<"s", "c", "a", "r", "y">>,
             <<"f", "r", "i", "g", "h", "t", "e", "n", "i", "n", "g">>,
             <<"t", "e", "r", "r", "i", "f", "y", "i", "n", "g">>,
             <<"s", "p", "o", "o", "k", "y">>,
             <<"c", "r", "e", "e", "p", "y">> >>],
       [tag |-> "comedy",
        keywords |->
          << <<"c", "o", "m", "e", "d", "y">>, <<"f", "u", "n", "n", "y">>,
             <<"h", "i", "l", "a", "r", "i", "o", "u", "s">>,
             <<"l", "a", "u", "g", "h">>,
             <<"h", "u", "m", "o", "r", "o", "u", "s">>,
             <<"w", "i", "t", "t", "y">> >>],
       [tag |-> "romance",
        keywords |->
          << <<"r", "o", "m", "a", "n", "c", "e">>, <<"l", "o", "v", "e">>,
             <<"r", "o", "m", "a", "n", "t", "i", "c">>,
             <<"r", "e", "l", "a", "t", "i", "o", "n", "s", "h", "i", "p">>,
             <<"d", "a", "t", "i", "n", "g">>, <<"h", "e", "a", "r", "t">> >>],
       [tag |-> "fantasy",
        keywords |->
          << <<"f", "a", "n", "t", "a", "s", "y">>,
             <<"m", "a", "g", "i", "c", "a", "l">>,
             <<"m", "y", "t", "h", "i", "c", "a", "l">>,
             <<"s", "u", "p", "e", "r", "n", "a", "t", "u", "r", "a", "l">>,
             <<"e", "n", "c", "h", "a", "n", "t", "e", "d">>,
             <<"w", "i", "z", "a", "r", "d">> >>],
       [tag |-> "animation",
        keywords |->
          << <<"a", "n", "i", "m", "a", "t", "i", "o", "n">>,
             <<"a", "n", "i", "m", "a", "t", "e", "d">>,
             <<"c", "a", "r", "t", "o", "o", "n">>,
             <<"p", "i", "x", "a", "r">>, <<"d", "i", "s", "n", "e", "y">>,
             <<"a", "n", "i", "m", "e">> >>],
       [tag |-> "documentary",
        keywords |->
          << <<"d", "o", "c", "u", "m", "e", "n", "t", "a", "r", "y">>,
             <<"r", "e", "a", "l">>,
             <<"t", "r", "u", "e", " ", "s", "t", "o", "r", "y">>,
             <<"h", "i", "s", "t", "o", "r", "i", "c", "a", "l">>,
             <<"e", "d", "u", "c", "a", "t", "i", "o", "n", "a", "l">> >>],
       [tag |-> "crime",
        keywords |->
          << <<"c", "r", "i", "m", "e">>,
             <<"d", "e", "t", "e", "c", "t", "i", "v", "e">>,
             <<"m", "u", "r", "d", "e", "r">>,
             <<"i", "n", "v", "e", "s", "t", "i", "g", "a", "t", "i", "o", "n">>,
             <<"p", "o", "l", "i", "c", "e">>, <<"h", "e", "i", "s", "t">> >>],
       [tag |-> "family",
        keywords |->
          << <<"f", "a", "m", "i", "l", "y">>, <<"k", "i", "d", "s">>,
             <<"c", "h", "i", "l", "d", "r", "e", "n">>,
             <<"w", "h", "o", "l", "e", "s", "o", "m", "e">>,
             <<"a", "l", "l", " ", "a", "g", "e", "s">> >>] >>

emotionKeywords ==
    << [tag |-> "suspense",
        keywords |->
          << <<"s", "u", "s", "p", "e", "n", "s", "e">>,
             <<"t", "e", "n", "s", "i", "o", "n">>,
             <<"n", "a", "i", "l", "-", "b", "i", "t", "i", "n", "g">>,
             <<"t", "h", "r", "i", "l", "l", "i", "n", "g">>,
             <<"e", "d", "g", "e">> >>],
       [tag |-> "hope",
        keywords |->
          << <<"h", "o", "p", "e">>,
             <<"u", "p", "l", "i", "f", "t", "i", "n", "g">>,
             <<"i", "n", "s", "p", "i", "r", "i", "n", "g">>,
             <<"p", "o", "s", "i", "t", "i", "v", "e">>,
             <<"o", "p", "t", "i", "m", "i", "s", "t", "i", "c">> >>],
       [tag |-> "fear",
        keywords |->
          << <<"s", "c", "a", "r", "y">>,
             <<"f", "r", "i", "g", "h", "t", "e", "n", "i", "n", "g">>,
             <<"h", "o", "r", "r", "o", "r">>,
             <<"t", "e", "r", "r", "i", "f", "y", "i", "n", "g">>,
             <<"c", "r", "e", "e", "p", "y">> >>],
       [tag |-> "joy",
        keywords |->
          << <<"h", "a", "p", "p", "y">>, <<"j", "o", "y", "f", "u", "l">>,
             <<"f", "u", "n">>, <<"u", "p", "b", "e", "a", "t">>,
             <<"c", "h", "e", "e", "r", "f", "u", "l">>,
             <<"l", "a", "u", "g", "h">> >>],
       [tag |-> "sadness",
        keywords |->
          << <<"s", "a", "d">>,
             <<"e", "m", "o", "t", "i", "o", "n", "a", "l">>,
             <<"t", "o", "u", "c", "h", "i", "n", "g">>,
             <<"m", "o", "v", "i", "n", "g">>,
             <<"t", "e", "a", "r", "j", "e", "r", "k", "e", "r">>,
             <<"c", "r", "y">> >>],
       [tag |-> "anger",
        keywords |->
          << <<"a", "n", "g", "r", "y">>,
             <<"r", "e", "v", "e", "n", "g", "e">>,
             <<"v", "e", "n", "g", "e", "a", "n", "c", "e">>,
             <<"f", "u", "r", "y">>, <<"r", "a", "g", "e">> >>],
       [tag |-> "wonder",
        keywords |->
          << <<"a", "m", "a", "z", "i", "n", "g">>,
             <<"w", "o", "n", "d", "e", "r", "f", "u", "l">>,
             <<"m", "a", "g", "i", "c", "a", "l">>,
             <<"s", "p", "e", "c", "t", "a", "c", "u", "l", "a", "r">>,
             <<"m", "i", "n", "d", "b", "l", "o", "w", "i", "n", "g">> >>] >>

languageKeywords ==
    << [keyword |-> <<"h", "i", "n", "d", "i">>, langCode |-> "hi"],
       [keyword |-> <<"b", "e", "n", "g", "a", "l", "i">>, langCode |-> "bn"],
       [keyword |-> <<"b", "a", "n", "g", "l", "a">>, langCode |-> "bn"],
       [keyword |-> <<"t", "e", "l", "u", "g", "u">>, langCode |-> "te"],
       [keyword |-> <<"t", "o", "l", "l", "y", "w", "o", "o", "d">>, langCode |-> "te"],
       [keyword |-> <<"t", "a", "m", "i", "l">>, langCode |-> "ta"],
       [keyword |-> <<"k", "o", "l", "l", "y", "w", "o", "o", "d">>, langCode |-> "ta"],
       [keyword |-> <<"m", "a", "l", "a", "y", "a", "l", "a", "m">>, langCode |-> "ml"],
       [keyword |-> <<"k", "a", "n", "n", "a", "d", "a">>, langCode |-> "kn"],
       [keyword |-> <<"m", "a", "r", "a", "t", "h", "i">>, langCode |-> "mr"],
       [keyword |-> <<"p", "u", "n", "j", "a", "b", "i">>, langCode |-> "pa"],
       [keyword |-> <<"k", "o", "r", "e", "a", "n">>, langCode |-> "ko"],
       [keyword |-> <<"j", "a", "p", "a", "n", "e", "s", "e">>, langCode |-> "ja"],
       [keyword |-> <<"b", "o", "l", "l", "y", "w", "o", "o", "d">>, langCode |-> "hi"],
       [keyword |-> <<"i", "n", "d", "i", "a", "n">>, langCode |-> "hi"] >>

recencyWords ==
    << <<"n", "e", "w">>, <<"l", "a", "t", "e", "s", "t">>,
       <<"r", "e", "c", "e", "n", "t">>, <<"2", "0", "2", "4">>,
       <<"2", "0", "2", "5">>, <<"c", "u", "r", "r", "e", "n", "t">>,
       <<"t", "h", "i", "s", " ", "y", "e", "a", "r">>,
       <<"n", "o", "w", " ", "p", "l", "a", "y", "i", "n", "g">> >>

intensityWordsHigh ==
    << <<"i", "n", "t", "e", "n", "s", "e">>,
       <<"b", "r", "u", "t", "a", "l">>,
       <<"e", "x", "t", "r", "e", "m", "e">>,
       <<"v", "i", "o", "l", "e", "n", "t">>,
       <<"a", "c", "t", "i", "o", "n", "-", "p", "a", "c", "k", "e", "d">>,
       <<"g", "o", "r", "y">>, <<"d", "a", "r", "k">> >>

intensityWordsLow ==
    << <<"m", "i", "l", "d">>, <<"g", "e", "n", "t", "l", "e">>,
       <<"c", "a", "l", "m">>, <<"p", "e", "a", "c", "e", "f", "u", "l">>,
       <<"s", "l", "o", "w", "-", "p", "a", "c", "e", "d">>,
       <<"c", "o", "z", "y">>, <<"l", "i", "g", "h", "t">> >>

DefaultIntensity == 5
HighIntensity == 8
LowIntensity == 3

\* findKeywordMatches looking for the keywords in the whole text
findKeywordMatchesInText(text, dictionary) ==
    LET matching ==
          SelectSeq(dictionary, LAMBDA entry :
              \E k \in 1..Len(entry.keywords) :
                  Includes(LowerCaseText(text), LowerCaseText(entry.keywords[k])))
    IN  [i \in 1..Len(matching) |-> matching[i].tag]

\* findKeywordMatches: the tags with a keyword that some word includes, in
\* the order of the dictionary
findKeywordMatches(text, dictionary) ==
    LET words == SplitWhitespace(LowerCaseText(text), <<>>, <<>>)
        matching ==
          SelectSeq(dictionary, LAMBDA entry :
              \E k \in 1..Len(entry.keywords) : \E w \in 1..Len(words) :
                  Includes(words[w], LowerCaseText(entry.keywords[k])))
    IN  [i \in 1..Len(matching) |-> matching[i].tag]

\* detectLanguage: the code of the first keyword the text includes; an
\* absent string is "undefined"
detectLanguage(text) ==
    LET found == SelectSeq(languageKeywords, LAMBDA entry :
                     Includes(LowerCaseText(text), entry.keyword))
    IN  IF found = <<>> THEN "undefined" ELSE found[1].langCode

detectRecency(text) ==
    \E i \in 1..Len(recencyWords) : Includes(LowerCaseText(text), recencyWords[i])

SomeIncluded(text, words) ==
    \E i \in 1..Len(words) : Includes(LowerCaseText(text), words[i])

\* intensity with the high check made after the low check
intensityHighLast(text) ==
    IF SomeIncluded(text, intensityWordsHigh) THEN HighIntensity
    ELSE IF SomeIncluded(text, intensityWordsLow) THEN LowIntensity
    ELSE DefaultIntensity

\* the intensity of analyzeUserInput: 5, set to 8 by a high word, then set
\* to 3 by a low word
intensity(text) ==
    LET afterHigh == IF SomeIncluded(text, intensityWordsHigh)
                       THEN HighIntensity ELSE DefaultIntensity
    IN  IF SomeIncluded(text, intensityWordsLow) THEN LowIntensity ELSE afterHigh

analyzeUserInput(input) ==
    LET text == Expand(input) IN
    [genres |-> findKeywordMatches(text, genreKeywords),
     emotions |-> findKeywordMatches(text, emotionKeywords),
     intensity |-> intensity(text),
     language |-> detectLanguage(text),
     wantsRecent |-> detectRecency(text)]

----------------------------------------------------------------------------
(* The catalog.  Entry id has a fixed rating and popularity; the responses  *)
(* of the catalog endpoints are lists of entries.                           *)

\* vote_average * 10 of the entries, by id (cyclic)
VoteAverages == <<80, 100, 100, 95, 90, 100, 70, 85, 100, 0, 65, 80>>

\* popularity of the entries, by id (cyclic)
Popularities == <<300, 500, 5000, 1050, 1200, 900, 2500, 1500, 800, 0, 149, 300>>

Cyclic(s, id) == s[((id - 1) % Len(s)) + 1]

\* a TMDBMedia object
Media(id) ==
    [id |-> id,
     vote_average |-> Cyclic(VoteAverages, id),
     popularity |-> Cyclic(Popularities, id),
     genre_ids |-> IF id % 3 = 0 THEN {18} ELSE {ANIMATION_GENRE_ID, 18}]

MediaList(ids) == [i \in 1..Len(ids) |-> Media(ids[i])]

\* the outcome of one HTTP request: a failure, or the results of the body
Failure == [error |-> TRUE]
Ok(results) == [error |-> FALSE, results |-> results]

\* JavaScript's null and undefined
Null == [null |-> TRUE]
Undefined == [undefined |-> TRUE]

\* responses of discover/{movie,tv}
DiscoverResponses ==
    {Failure} \cup {Ok(MediaList(Range(1, k))) : k \in 0..MaxCatalogId}

\* responses of search/{movie,tv} for the free-text query
SearchResponses ==
    {Failure, Ok(<<>>)} \cup {Ok(MediaList(<<a, 1>>)) : a \in 1..MaxSearchId}

\* the catalog entries the generative service's titles resolve to
TitleIds == {1, 2}

\* responses of search/{movie,tv} for one title
TitleResponses ==
    {Failure, Ok(<<>>)} \cup {Ok(MediaList(<<a>>)) : a \in TitleIds}

\* responses of {movie/now_playing, tv/on_the_air}; a title is kept as its
\* position in the response
RecentResponses == {Failure, Ok(<<>>), Ok(Range(1, MaxRecent))}

\* getRecentReleases
getRecentReleases(response, limit) ==
    IF response.error THEN [list |-> <<>>]
    ELSE [list |-> Slice(response.results, limit)]

\* searchByTitle: first-match policy, null on failure or no result
searchByTitle(response) ==
    IF response.error THEN Null
    ELSE IF Len(response.results) = 0 THEN Null
    ELSE response.results[1]

\* Deduplicate without the mediaSet test
RECURSIVE DeduplicateKeepAll(_, _, _, _)
DeduplicateKeepAll(allResults, mediaSet, results, mediaType) ==
    IF allResults = <<>> THEN results
    ELSE LET item == Head(allResults) IN
         IF mediaType = "anime" /\ ANIMATION_GENRE_ID \notin item.genre_ids
           THEN DeduplicateKeepAll(Tail(allResults), mediaSet, results, mediaType)
         ELSE DeduplicateKeepAll(Tail(allResults), mediaSet \cup {item.id},
                                 Append(results, item), mediaType)

\* the loop of searchMedia over allResults
RECURSIVE Deduplicate(_, _, _, _)
Deduplicate(allResults, mediaSet, results, mediaType) ==
    IF allResults = <<>> THEN results
    ELSE LET item == Head(allResults) IN
         IF item.id \in mediaSet
           THEN Deduplicate(Tail(allResults), mediaSet, results, mediaType)
         ELSE IF mediaType = "anime" /\ ANIMATION_GENRE_ID \notin item.genre_ids
           THEN Deduplicate(Tail(allResults), mediaSet, results, mediaType)
         ELSE Deduplicate(Tail(allResults), mediaSet \cup {item.id},
                          Append(results, item), mediaType)

\* the body of genre/{movie,tv}/list
GenreList ==
    << [id |-> ANIMATION_GENRE_ID, name |-> "Animation"],
       [id |-> 18, name |-> "Drama"],
       [id |-> 35, name |-> "Comedy"],
       [id |-> 878, name |-> "Science Fiction"] >>

\* what the requests of one searchMedia call give: the genre-list fetch fails
\* (and the two queries are never issued), or it succeeds and the discover
\* and the search query each fail or answer
CatalogOutcomes ==
    {[genres |-> Failure]} \cup
    {[genres |-> Ok(GenreList), discover |-> d, search |-> s] :
        d \in DiscoverResponses, s \in SearchResponses}

\* searchMedia answering with the discover results when only the free-text
\* search query failed
searchMediaKeepsDiscover(outcome, mediaType) ==
    IF outcome.genres.error THEN <<>>
    ELSE IF outcome.discover.error THEN <<>>
    ELSE IF outcome.search.error
      THEN Deduplicate(outcome.discover.results, {}, <<>>, mediaType)
    ELSE Deduplicate(outcome.discover.results \o outcome.search.results,
                     {}, <<>>, mediaType)

\* searchMedia: the genre-list fetch, then the two queries (Promise.all
\* rejects as soon as one of them fails), then the union; the catch gives []
searchMedia(outcome, mediaType) ==
    IF outcome.genres.error THEN <<>>
    ELSE IF outcome.discover.error \/ outcome.search.error THEN <<>>
    ELSE Deduplicate(outcome.discover.results \o outcome.search.results,
                     {}, <<>>, mediaType)

----------------------------------------------------------------------------
(* The generative service *)

\* what generateContent and JSON.parse give: the request fails, the text is
\* no JSON, the JSON is no array, or it is the array `parsed`
NotAnArray == {[kind |-> k, parsed |-> <<>>] : k \in {"transport", "syntax", "object"}}

\* the responses of one getRecommendations call: an entry of the array is
\* kept as its position
AIResponses ==
    NotAnArray \cup {[kind |-> "array", parsed |-> Range(1, n)] : n \in 0..MaxParsed}

\* an entry of the parsed array, as processAIRecommendations reads it: null,
\* or an object with a title and an explanation, which may be empty
Candidates ==
    {Null} \cup {[title |-> "t", explanation |-> e] : e \in {"why", ""}}

\* the contextSection of the prompt: empty unless freshContext is a
\* non-empty list, else its titles, numbered from 1
contextSection(context) ==
    IF context = Undefined THEN <<>>
    ELSE [i \in 1..Len(context.list) |-> [number |-> i, title |-> context.list[i]]]

\* getAIRecommendations without the slice(0, 5)
getAIRecommendationsUnsliced(keyReady, response) ==
    IF ~keyReady \/ response.kind # "array" \/ Len(response.parsed) = 0
      THEN [success |-> FALSE, recommendations |-> <<>>]
    ELSE [success |-> TRUE, recommendations |-> response.parsed]

\* getAIRecommendations: every throw of the try block (no key, a failed
\* request, a JSON.parse error, no array, an empty array) ends in the catch
getAIRecommendations(keyReady, response) ==
    IF ~keyReady
      THEN [success |-> FALSE, recommendations |-> <<>>]
    ELSE IF response.kind # "array" \/ Len(response.parsed) = 0
      THEN [success |-> FALSE, recommendations |-> <<>>]
    ELSE [success |-> TRUE,
          recommendations |-> Slice(response.parsed, MaxAIRecommendations)]

----------------------------------------------------------------------------
(* Building and scoring records *)

\* truthiness of an optional string
Truthy(str) == str \notin {"undefined", ""}

\* buildRecommendation: the fields of the record the engine reads again
buildRecommendation(media, mediaType, aiExplanation) ==
    [id |-> media.id,
     matchPercentage |-> IF Truthy(aiExplanation) THEN AIBaseScore
                         ELSE HeuristicBaseScore,
     mediaType |-> mediaType,
     aiExplanation |-> aiExplanation]

\* heuristicScore without its three Math.min caps
heuristicScoreUncapped(media) ==
    Round100(6000 + media.vote_average * 20 + media.popularity)

\* the score of getHeuristicRecommendations
heuristicScore(media) ==
    LET score == 6000 + Min(2000, media.vote_average * 20)
                      + Min(2000, media.popularity)
    IN  Round100(Min(10000, score))

\* heuristicRecord with the query passed on as the fourth argument of
\* buildRecommendation
heuristicRecordWithRationale(media, mediaType) ==
    [buildRecommendation(media, mediaType, "why")
        EXCEPT !.matchPercentage = heuristicScore(media)]

\* the record getHeuristicRecommendations builds for one catalog entry
heuristicRecord(media, mediaType) ==
    [buildRecommendation(media, mediaType, "undefined")
        EXCEPT !.matchPercentage = heuristicScore(media)]

\* getHeuristicRecommendations without the slice(0, 10)
getHeuristicRecommendationsAll(mediaItems, mediaType) ==
    [i \in 1..Len(mediaItems) |-> heuristicRecord(mediaItems[i], mediaType)]

\* getHeuristicRecommendations, given the result of searchMedia
getHeuristicRecommendations(mediaItems, mediaType) ==
    LET items == Slice(mediaItems, MaxHeuristicItems)
    IN  [i \in 1..Len(items) |-> heuristicRecord(items[i], mediaType)]

\* the merge putting the heuristic records before those of the AI path
mergeResultsHeuristicFirst(recs, existingIds, results) ==
    SelectSeq(results, LAMBDA r : r.id \notin existingIds) \o recs

\* the merge loop of getRecommendations
RECURSIVE mergeResults(_, _, _)
mergeResults(recs, existingIds, results) ==
    IF results = <<>> THEN recs
    ELSE IF Head(results).id \notin existingIds
      THEN mergeResults(Append(recs, Head(results)), existingIds, Tail(results))
      ELSE mergeResults(recs, existingIds, Tail(results))

\* Array.prototype.filter with r.matchPercentage > 30
filterResults(recs) ==
    SelectSeq(recs, LAMBDA r : r.matchPercentage > MinMatchPercentage)

\* insertSorted putting r before the records of equal matchPercentage
RECURSIVE insertSortedUnstable(_, _)
insertSortedUnstable(sorted, r) ==
    IF sorted = <<>> THEN <<r>>
    ELSE IF Head(sorted).matchPercentage > r.matchPercentage
      THEN <<Head(sorted)>> \o insertSortedUnstable(Tail(sorted), r)
      ELSE <<r>> \o sorted

\* one insertion of the stable sort: r goes after every record the
\* comparator (b.matchPercentage - a.matchPercentage) does not put behind it
RECURSIVE insertSorted(_, _)
insertSorted(sorted, r) ==
    IF sorted = <<>> THEN <<r>>
    ELSE IF Head(sorted).matchPercentage >= r.matchPercentage
      THEN <<Head(sorted)>> \o insertSorted(Tail(sorted), r)
      ELSE <<r>> \o sorted

\* Array.prototype.sort (stable) by descending matchPercentage
RECURSIVE sortResults(_)
sortResults(recs) ==
    IF recs = <<>> THEN <<>>
    ELSE insertSorted(sortResults(SubSeq(recs, 1, Len(recs) - 1)), recs[Len(recs)])

\* finalResults without the slice(0, 7)
finalResultsUnsliced(recs) == sortResults(filterResults(recs))

\* the return expression of getRecommendations
finalResults(recs) == Slice(sortResults(filterResults(recs)), MaxResults)

----------------------------------------------------------------------------
(* The state machine *)

\* the analysis of the empty text, which the input field holds before a call
EmptyAnalysis == analyzeUserInput(<<>>)

NoCalls == [recent |-> 0, ai |-> 0, title |-> 0, media |-> 0, enrich |-> 0]

\* no gateway operation is being called on its own
NoGatewayCall == [op |-> "none"]

\* a searchMedia call that has not been made yet
NotStarted == [pc |-> "notStarted"]

\* positions at which the outcome of an entry is with its caller
Ended == {"alerted", "done", "raised"}

Init ==
    /\ pc = "idle"
    /\ userInput = <<>>
    /\ options = [mediaType |-> "movie", hiddenGems |-> FALSE, region |-> "IN"]
    /\ analysis = EmptyAnalysis
    /\ GEMINI_API_KEY \in BOOLEAN
    /\ genAI = FALSE
    /\ freshContext = Undefined
    /\ aiResult = Undefined
    /\ aiIdx = 0
    /\ recommendations = <<>>
    /\ heuristicResults = <<>>
    /\ returned = <<>>
    /\ calls = NoCalls
    /\ aiPrompt = Undefined
    /\ gateway = NoGatewayCall
    /\ movieGenreMap = Null
    /\ tvGenreMap = Null
    /\ genreIdToNameCache = Null
    /\ searches = [c \in 1..MaxSearches |-> NotStarted]
    /\ genreRequests = <<>>
    /\ foundMedia = Null
    /\ pending = {}
    /\ settled = {}
    /\ log = <<>>

\* needsFallback with the threshold off by one
needsFallbackBelowTwo(recs) == Len(recs) < MinAIResults - 1

\* the condition of the fallback in getRecommendations
needsFallback(recs) == Len(recs) < MinAIResults

\* firstAwait never choosing the recency fetch
firstAwaitNoRecency(analyzed) == "getAIRecommendations"

\* the first await of getRecommendations: the recency fetch if the analysis
\* says wantsRecent, else the AI call
firstAwait(analyzed) ==
    IF analyzed.wantsRecent THEN "getRecentReleases" ELSE "getAIRecommendations"

\* getRecommendations up to its first await: the analysis, and the choice
\* between the recency fetch and the AI call
enterGetRecommendations(input, opts) ==
    /\ userInput' = input
    /\ options' = opts
    /\ analysis' = analyzeUserInput(input)
    /\ pc' = firstAwait(analyzeUserInput(input))
    /\ freshContext' = Undefined
    /\ aiResult' = Undefined
    /\ aiIdx' = 0
    /\ recommendations' = <<>>
    /\ heuristicResults' = <<>>
    /\ returned' = <<>>
    /\ calls' = NoCalls
    /\ aiPrompt' = Undefined
    /\ UNCHANGED <<GEMINI_API_KEY, genAI, gateway, cacheVars, buildVars>>

\* App.handleSubmit: the form is submitted with the text of the input field
handleSubmit ==
    /\ pc = "idle"
    /\ \E input \in Queries, mediaType \in MediaTypes, hiddenGems \in BOOLEAN :
         IF TooShort(input)
           THEN /\ pc' = "alerted"
                /\ userInput' = input
                /\ options' = [mediaType |-> mediaType, hiddenGems |-> hiddenGems,
                               region |-> "IN"]
                /\ analysis' = EmptyAnalysis
                /\ freshContext' = Undefined
                /\ aiResult' = Undefined
                /\ aiIdx' = 0
                /\ recommendations' = <<>>
                /\ heuristicResults' = <<>>
                /\ returned' = <<>>
                /\ calls' = NoCalls
                /\ aiPrompt' = Undefined
                /\ UNCHANGED <<GEMINI_API_KEY, genAI, gateway, cacheVars, buildVars>>
           ELSE enterGetRecommendations(input,
                    [mediaType |-> mediaType, hiddenGems |-> hiddenGems,
                     region |-> "IN"])

\* App.handleMoodClick: a mood chip is clicked
handleMoodClick ==
    /\ pc = "idle"
    /\ \E mediaType \in MediaTypes, hiddenGems \in BOOLEAN :
         enterGetRecommendations(MoodChipPrompt,
             [mediaType |-> mediaType, hiddenGems |-> hiddenGems, region |-> "IN"])

\* the legacy export getMovieRecommendations
getMovieRecommendations ==
    /\ pc = "idle"
    /\ \E input \in Queries :
         enterGetRecommendations(input,
             [mediaType |-> "movie", hiddenGems |-> FALSE, region |-> "IN"])

\* await getRecentReleases(mediaType, 15)
awaitRecentReleases ==
    /\ pc = "getRecentReleases"
    /\ \E response \in RecentResponses :
         freshContext' = getRecentReleases(response, RecentLimit)
    /\ calls' = [calls EXCEPT !.recent = @ + 1]
    /\ pc' = "getAIRecommendations"
    /\ UNCHANGED <<userInput, options, analysis, GEMINI_API_KEY, genAI, aiResult,
                   aiIdx, recommendations, heuristicResults, returned, aiPrompt,
                   gateway, cacheVars, buildVars>>

\* await getAIRecommendations(userInput, mediaType, hiddenGems, freshContext)
awaitAIRecommendations ==
    /\ pc = "getAIRecommendations"
    /\ LET keyReady == genAI \/ GEMINI_API_KEY IN
       /\ genAI' = keyReady
       /\ calls' = [calls EXCEPT !.ai = IF keyReady THEN @ + 1 ELSE @]
       /\ aiPrompt' = IF keyReady
                        THEN [contextSection |-> contextSection(freshContext)]
                        ELSE Undefined
       /\ \E response \in AIResponses :
            /\ aiResult' = getAIRecommendations(keyReady, response)
            /\ pc' = IF aiResult'.success /\ Len(aiResult'.recommendations) > 0
                       THEN "processAIRecommendations" ELSE "sufficiency"
    /\ aiIdx' = 1
    /\ UNCHANGED <<userInput, options, analysis, GEMINI_API_KEY, freshContext,
                   recommendations, heuristicResults, returned, gateway, cacheVars, buildVars>>

\* one iteration of the loop of processAIRecommendations
processAIRecommendations ==
    /\ pc = "processAIRecommendations"
    /\ aiIdx <= Len(aiResult.recommendations)
    /\ \E rec \in Candidates, response \in TitleResponses :
         IF rec = Null
           THEN \* rec.title of null: a TypeError, which nothing catches
                /\ pc' = "raised"
                /\ UNCHANGED <<aiIdx, recommendations, calls>>
           ELSE LET media == searchByTitle(response) IN
                /\ aiIdx' = aiIdx + 1
                /\ pc' = IF aiIdx = Len(aiResult.recommendations)
                           THEN "sufficiency" ELSE "processAIRecommendations"
                /\ IF media = Null
                     THEN /\ calls' = [calls EXCEPT !.title = @ + 1]
                          /\ UNCHANGED recommendations
                     ELSE /\ calls' = [calls EXCEPT !.title = @ + 1,
                                                    !.enrich = @ + 1]
                          /\ recommendations' =
                               Append(recommendations,
                                      buildRecommendation(media, options.mediaType,
                                                          rec.explanation))
    /\ UNCHANGED <<userInput, options, analysis, GEMINI_API_KEY, genAI,
                   freshContext, aiResult, heuristicResults, returned, aiPrompt,
                   gateway, cacheVars, buildVars>>

\* the fallback: await getHeuristicRecommendations, merge, and return
heuristicFallback ==
    /\ pc = "sufficiency"
    /\ needsFallback(recommendations)
    /\ \E outcome \in CatalogOutcomes :
         LET mediaItems == searchMedia(outcome, options.mediaType)
             results == getHeuristicRecommendations(mediaItems, options.mediaType)
             merged == mergeResults(recommendations, Ids(recommendations), results)
         IN  /\ heuristicResults' = results
             /\ recommendations' = merged
             /\ returned' = finalResults(merged)
             /\ calls' = [calls EXCEPT !.media = @ + 1, !.enrich = @ + Len(results)]
    /\ pc' = "done"
    /\ UNCHANGED <<userInput, options, analysis, GEMINI_API_KEY, genAI,
                   freshContext, aiResult, aiIdx, aiPrompt, gateway, cacheVars, buildVars>>

\* the return of getRecommendations when the AI path was sufficient
returnRecommendations ==
    /\ pc = "sufficiency"
    /\ ~needsFallback(recommendations)
    /\ returned' = finalResults(recommendations)
    /\ pc' = "done"
    /\ UNCHANGED <<userInput, options, analysis, GEMINI_API_KEY, genAI,
                   freshContext, aiResult, aiIdx, recommendations,
                   heuristicResults, calls, aiPrompt, gateway, cacheVars, buildVars>>

\* the caller takes the outcome (fetchRecommendations stores the list or
\* alerts); the locals of the call are gone and the next entry can start
callCompleted ==
    /\ pc \in Ended
    /\ pc' = "idle"
    /\ userInput' = <<>>
    /\ options' = [mediaType |-> "movie", hiddenGems |-> FALSE, region |-> "IN"]
    /\ analysis' = EmptyAnalysis
    /\ freshContext' = Undefined
    /\ aiResult' = Undefined
    /\ aiIdx' = 0
    /\ recommendations' = <<>>
    /\ heuristicResults' = <<>>
    /\ returned' = <<>>
    /\ calls' = NoCalls
    /\ aiPrompt' = Undefined
    /\ UNCHANGED <<GEMINI_API_KEY, genAI, gateway, cacheVars, buildVars>>

Next ==
    \/ handleSubmit
    \/ handleMoodClick
    \/ getMovieRecommendations
    \/ awaitRecentReleases
    \/ awaitAIRecommendations
    \/ processAIRecommendations
    \/ heuristicFallback
    \/ returnRecommendations
    \/ callCompleted

Spec == Init /\ [][Next]_vars

----------------------------------------------------------------------------
(* The gateway operations, each called on its own: the arguments and the    *)
(* responses are drawn at the call, and the variable gateway holds them     *)
(* with what the operation requested and gave.  The body of every one of    *)
(* these operations is inside one try block whose catch returns a value.    *)

\* the discover and the free-text search query answer with at most
\* MaxListLen entries
MaxListLen == 2
\* a tier of the watch-provider data lists at most MaxTierLen providers
MaxTierLen == 2
\* the reviews endpoint answers with at most MaxReviewList reviews
MaxReviewList == 4
\* the videos endpoint answers with at most MaxVideoList videos
MaxVideoList == 2

HiddenGemsVoteCountMin == 50
VoteCountMin == 100
ReviewLimit == 3
TrailerLimit == 1

\* the sequences over S of length at most n
SeqsUpTo(S, n) == UNION {[1..k -> S] : k \in 0..n}

Elements(s) == {s[i] : i \in 1..Len(s)}

\* String.prototype.toLowerCase on the names used here
ToLowerCase(str) ==
    CASE str = "Animation" -> "animation"
      [] str = "Drama" -> "drama"
      [] str = "Comedy" -> "comedy"
      [] str = "Science Fiction" -> "science fiction"
      [] str = "Sci-Fi & Fantasy" -> "sci-fi & fantasy"
      [] OTHER -> str

\* the genreMap getGenreMaps builds from the body of the genre list
getGenreMaps(genres) ==
    [name \in {ToLowerCase(genres[i].name) : i \in 1..Len(genres)} |->
        LET i == CHOOSE k \in 1..Len(genres) :
                     /\ ToLowerCase(genres[k].name) = name
                     /\ \A m \in (k + 1)..Len(genres) :
                            ToLowerCase(genres[m].name) # name
        IN  genres[i].id]

tmdbMediaType(mediaType) == IF mediaType = "anime" THEN "tv" ELSE mediaType

\* genres.map(genre => genreMap[genre.toLowerCase()]).filter(defined), and
\* for anime the push of the animation genre
genreIds(genres, genreMap, mediaType) ==
    LET known == SelectSeq(genres, LAMBDA g : ToLowerCase(g) \in DOMAIN genreMap)
        ids == [i \in 1..Len(known) |-> genreMap[ToLowerCase(known[i])]]
    IN  IF mediaType = "anime" /\ ANIMATION_GENRE_ID \notin Elements(ids)
          THEN Append(ids, ANIMATION_GENRE_ID)
          ELSE ids

\* discoverParams without the override for anime
discoverParamsDetectedLanguage(searchOptions, genreMap) ==
    [sort_by |-> IF searchOptions.hiddenGems THEN "vote_average.desc"
                 ELSE "popularity.desc",
     vote_count_gte |-> IF searchOptions.hiddenGems THEN HiddenGemsVoteCountMin
                        ELSE VoteCountMin,
     with_genres |-> genreIds(searchOptions.genres, genreMap,
                              searchOptions.mediaType),
     with_original_language |->
         IF Truthy(searchOptions.language) THEN searchOptions.language
         ELSE "undefined",
     region |-> searchOptions.region]

\* the params of the discover request; with_genres is the list that is
\* joined with commas, absent when empty; an absent string is "undefined"
discoverParams(searchOptions, genreMap) ==
    [sort_by |-> IF searchOptions.hiddenGems THEN "vote_average.desc"
                 ELSE "popularity.desc",
     vote_count_gte |-> IF searchOptions.hiddenGems THEN HiddenGemsVoteCountMin
                        ELSE VoteCountMin,
     with_genres |-> genreIds(searchOptions.genres, genreMap,
                              searchOptions.mediaType),
     with_original_language |->
         IF searchOptions.mediaType = "anime" THEN "ja"
         ELSE IF Truthy(searchOptions.language) THEN searchOptions.language
         ELSE "undefined",
     region |-> searchOptions.region]

\* the requests one searchMedia call issues: the genre-list fetch, and after
\* it has answered the discover and the free-text search query
searchRequests(searchOptions, outcome) ==
    LET tmdb == tmdbMediaType(searchOptions.mediaType) IN
    [genres |-> IF tmdb = "tv" THEN "genre/tv/list" ELSE "genre/movie/list",
     discover |->
         IF outcome.genres.error THEN Undefined
         ELSE [endpoint |-> IF tmdb = "tv" THEN "discover/tv" ELSE "discover/movie",
               params |-> discoverParams(searchOptions,
                                         getGenreMaps(outcome.genres.results))],
     search |->
         IF outcome.genres.error THEN Undefined
         ELSE [endpoint |-> IF tmdb = "tv" THEN "search/tv" ELSE "search/movie"]]

\* searchOptions with the hiddenGems flag left out
searchOptionsNoHiddenGems(analyzed, opts) ==
    [mediaType |-> opts.mediaType,
     genres |-> analyzed.genres,
     language |-> analyzed.language,
     region |-> opts.region,
     hiddenGems |-> FALSE]

\* searchOptions with the sort switched to rating-first for an intensity
\* above the default
searchOptionsByIntensity(analyzed, opts) ==
    [mediaType |-> opts.mediaType,
     genres |-> analyzed.genres,
     language |-> analyzed.language,
     region |-> opts.region,
     hiddenGems |-> opts.hiddenGems \/ analyzed.intensity > DefaultIntensity]

\* the searchOptions of getHeuristicRecommendations
searchOptions(analyzed, opts) ==
    [mediaType |-> opts.mediaType,
     genres |-> analyzed.genres,
     language |-> analyzed.language,
     region |-> opts.region,
     hiddenGems |-> opts.hiddenGems]

\* the order in which getWatchProviders goes through the tiers, with
\* flatrate put first
TierOrderFlatrateFirst == <<"flatrate", "free", "rent", "buy">>

\* the order in which getWatchProviders goes through the tiers
TierOrder == <<"free", "flatrate", "rent", "buy">>

\* processProviders: the providers of one tier that were not seen yet
RECURSIVE processProviders(_, _, _)
processProviders(providers, tierOptions, type) ==
    IF tierOptions = <<>> THEN providers
    ELSE LET name == Head(tierOptions).provider_name IN
         IF name \in {providers[i].name : i \in 1..Len(providers)}
           THEN processProviders(providers, Tail(tierOptions), type)
           ELSE processProviders(Append(providers, [name |-> name, type |-> type]),
                                 Tail(tierOptions), type)

RECURSIVE processTiers(_, _, _)
processTiers(providers, regionData, tiers) ==
    IF tiers = <<>> THEN providers
    ELSE IF Head(tiers) \notin DOMAIN regionData
      THEN processTiers(providers, regionData, Tail(tiers))
    ELSE processTiers(processProviders(providers, regionData[Head(tiers)],
                                       Head(tiers)),
                      regionData, Tail(tiers))

\* getWatchProviders: the data of the region, else of US, tier by tier
getWatchProviders(response, region) ==
    IF response.error THEN <<>>
    ELSE IF region \in DOMAIN response.results
      THEN processTiers(<<>>, response.results[region], TierOrder)
    ELSE IF "US" \in DOMAIN response.results
      THEN processTiers(<<>>, response.results["US"], TierOrder)
    ELSE <<>>

getMediaReviews(response) ==
    IF response.error THEN <<>> ELSE Slice(response.results, ReviewLimit)

getMediaVideos(response) ==
    IF response.error THEN <<>>
    ELSE Slice(SelectSeq(response.results,
                         LAMBDA v : v.site = "YouTube" /\ v.type = "Trailer"),
               TrailerLimit)

\* getTVDetails: an absent number of the body counts as 0
getTVDetails(response) ==
    IF response.error THEN Null
    ELSE [seasons |-> IF "number_of_seasons" \in DOMAIN response.results
                        THEN response.results["number_of_seasons"] ELSE 0,
          episodes |-> IF "number_of_episodes" \in DOMAIN response.results
                         THEN response.results["number_of_episodes"] ELSE 0]

(* The arguments and responses of the gateway calls *)

\* catalog ids of the short discover and search answers; 3 has no animation
\* genre
ShortListIds == {1, 2, 3}

ShortResponses ==
    {Failure} \cup {Ok(MediaList(ids)) : ids \in SeqsUpTo(ShortListIds, MaxListLen)}

ShortOutcomes ==
    {[genres |-> Failure]} \cup
    {[genres |-> Ok(GenreList), discover |-> d, search |-> s] :
        d \in ShortResponses, s \in ShortResponses}

\* genre tags the analyzer can give; TMDB has no genre named sci-fi
GenreTagLists == {<<>>, <<"animation">>, <<"drama", "sci-fi">>}

\* the language code the analyzer detected
Languages == {"undefined", "hi"}

AnalyzedInputs == [genres : GenreTagLists, language : Languages]

OptionsSet == [mediaType : MediaTypes, hiddenGems : BOOLEAN, region : {"IN"}]

SearchOptionsSet ==
    [mediaType : MediaTypes, genres : GenreTagLists, language : Languages,
     region : {"IN"}, hiddenGems : BOOLEAN]

\* entries of the array the generative service's text parses to
ParsedEntries ==
    {Null,
     [title |-> "t", explanation |-> "why"],
     [title |-> "t"],
     [explanation |-> "why"]}

AIGatewayResponses ==
    NotAnArray \cup
    {[kind |-> "array", parsed |-> p] : p \in SeqsUpTo(ParsedEntries, MaxParsed)}

ProviderNames == {"a", "b"}

Tiers == {"free", "flatrate", "rent", "buy"}

\* WatchProviderRegionData: each tier is absent or a list of providers
RegionDatas ==
    UNION {[present ->
              SeqsUpTo([provider_name : ProviderNames], MaxTierLen)] :
           present \in SUBSET Tiers}

USData == [t \in {"flatrate"} |-> <<[provider_name |-> "a"]>>]

\* responses of {movie,tv}/{id}/watch/providers: results by region
ProviderResponses ==
    {Failure, Ok(<<>>), Ok([r \in {"US"} |-> USData])} \cup
    {Ok([r \in {"IN", "US"} |-> IF r = "IN" THEN data ELSE USData]) :
        data \in RegionDatas}

ReviewResponses == {Failure} \cup {Ok(Range(1, k)) : k \in 0..MaxReviewList}

Videos ==
    {[key |-> "k1", site |-> "YouTube", type |-> "Trailer"],
     [key |-> "k2", site |-> "YouTube", type |-> "Teaser"],
     [key |-> "k3", site |-> "Vimeo", type |-> "Trailer"]}

VideoResponses == {Failure} \cup {Ok(v) : v \in SeqsUpTo(Videos, MaxVideoList)}

TVDetailsResponses ==
    {Failure, Ok(<<>>),
     Ok([f \in {"number_of_seasons", "number_of_episodes"} |->
            IF f = "number_of_seasons" THEN 2 ELSE 20])}

(* The gateway calls *)

engineVars == <<pc, userInput, options, analysis, GEMINI_API_KEY, freshContext,
                aiResult, aiIdx, recommendations, heuristicResults, returned,
                calls, aiPrompt>>

callSearchMedia ==
    /\ gateway = NoGatewayCall
    /\ \E searchOpts \in SearchOptionsSet, outcome \in ShortOutcomes :
         gateway' = [op |-> "searchMedia",
                     options |-> searchOpts,
                     outcome |-> outcome,
                     requests |-> searchRequests(searchOpts, outcome),
                     results |-> searchMedia(outcome, searchOpts.mediaType),
                     raised |-> FALSE]
    /\ UNCHANGED <<engineVars, genAI, cacheVars, buildVars>>

callGetHeuristicRecommendations ==
    /\ gateway = NoGatewayCall
    /\ \E opts \in OptionsSet, analyzed \in AnalyzedInputs,
          outcome \in CatalogOutcomes :
         LET mediaItems == searchMedia(outcome, opts.mediaType) IN
         gateway' = [op |-> "getHeuristicRecommendations",
                     options |-> opts,
                     analysis |-> analyzed,
                     outcome |-> outcome,
                     requests |-> searchRequests(searchOptions(analyzed, opts),
                                                 outcome),
                     mediaItems |-> mediaItems,
                     results |-> getHeuristicRecommendations(mediaItems,
                                                             opts.mediaType),
                     raised |-> FALSE]
    /\ UNCHANGED <<engineVars, genAI, cacheVars, buildVars>>

callSearchByTitle ==
    /\ gateway = NoGatewayCall
    /\ \E response \in TitleResponses :
         gateway' = [op |-> "searchByTitle",
                     response |-> response,
                     result |-> searchByTitle(response),
                     raised |-> FALSE]
    /\ UNCHANGED <<engineVars, genAI, cacheVars, buildVars>>

callGetAIRecommendations ==
    /\ gateway = NoGatewayCall
    /\ LET keyReady == genAI \/ GEMINI_API_KEY IN
       /\ genAI' = keyReady
       /\ \E response \in AIGatewayResponses :
            gateway' = [op |-> "getAIRecommendations",
                        keyReady |-> keyReady,
                        response |-> response,
                        result |-> getAIRecommendations(keyReady, response),
                        raised |-> FALSE]
    /\ UNCHANGED <<engineVars, cacheVars, buildVars>>

callGetWatchProviders ==
    /\ gateway = NoGatewayCall
    /\ \E response \in ProviderResponses :
         gateway' = [op |-> "getWatchProviders",
                     region |-> "IN",
                     response |-> response,
                     result |-> getWatchProviders(response, "IN"),
                     raised |-> FALSE]
    /\ UNCHANGED <<engineVars, genAI, cacheVars, buildVars>>

callGetMediaReviews ==
    /\ gateway = NoGatewayCall
    /\ \E response \in ReviewResponses :
         gateway' = [op |-> "getMediaReviews",
                     response |-> response,
                     result |-> getMediaReviews(response),
                     raised |-> FALSE]
    /\ UNCHANGED <<engineVars, genAI, cacheVars, buildVars>>

callGetMediaVideos ==
    /\ gateway = NoGatewayCall
    /\ \E response \in VideoResponses :
         gateway' = [op |-> "getMediaVideos",
                     response |-> response,
                     result |-> getMediaVideos(response),
                     raised |-> FALSE]
    /\ UNCHANGED <<engineVars, genAI, cacheVars, buildVars>>

callGetTVDetails ==
    /\ gateway = NoGatewayCall
    /\ \E response \in TVDetailsResponses :
         gateway' = [op |-> "getTVDetails",
                     response |-> response,
                     result |-> getTVDetails(response),
                     raised |-> FALSE]
    /\ UNCHANGED <<engineVars, genAI, cacheVars, buildVars>>

\* the caller has taken what the operation gave
gatewayReturn ==
    /\ gateway # NoGatewayCall
    /\ gateway' = NoGatewayCall
    /\ UNCHANGED <<engineVars, genAI, cacheVars, buildVars>>

GatewayNext ==
    \/ callSearchMedia
    \/ callGetHeuristicRecommendations
    \/ callSearchByTitle
    \/ callGetAIRecommendations
    \/ callGetWatchProviders
    \/ callGetMediaReviews
    \/ callGetMediaVideos
    \/ callGetTVDetails
    \/ gatewayReturn

SpecGateway == Init /\ [][GatewayNext]_vars

----------------------------------------------------------------------------
(* The analyzer called on its own *)

\* a text of the analyzer has at most MaxTextWords words
MaxTextWords == 2

\* the words of the texts: funny, Intense, mild, science, fiction, sci-fi, highlight, new, Hindi and the empty
\* word, which puts a space at the start or the end of a text, or two
\* spaces in a row
TextWords ==
    { <<"f", "u", "n", "n", "y">>,
      <<"I", "n", "t", "e", "n", "s", "e">>,
      <<"m", "i", "l", "d">>,
      <<"s", "c", "i", "e", "n", "c", "e">>,
      <<"f", "i", "c", "t", "i", "o", "n">>,
      <<"s", "c", "i", "-", "f", "i">>,
      <<"h", "i", "g", "h", "l", "i", "g", "h", "t">>,
      <<"n", "e", "w">>,
      <<"H", "i", "n", "d", "i">>,
      <<>> }

\* the prompt of the mood chip 'laugh':
\* "funny comedy that will make me laugh out loud"
ScenarioQuery ==
    << "f", "u", "n", "n", "y", " ", "c", "o", "m", "e", "d", "y", " ",
       "t", "h", "a", "t", " ", "w", "i", "l", "l", " ", "m", "a", "k",
       "e", " ", "m", "e", " ", "l", "a", "u", "g", "h", " ", "o", "u",
       "t", " ", "l", "o", "u", "d" >>

\* words.join(' ')
RECURSIVE Join(_)
Join(words) ==
    IF Len(words) = 0 THEN <<>>
    ELSE IF Len(words) = 1 THEN words[1]
    ELSE words[1] \o <<" ">> \o Join(Tail(words))

Texts ==
    {ScenarioQuery} \cup
    {Join(words) : words \in UNION {[1..n -> TextWords] : n \in 0..MaxTextWords}}

\* analyzeUserInput(text): the text and the analysis are kept, nothing is
\* requested
callAnalyzeUserInput ==
    /\ pc = "idle"
    /\ \E text \in Texts :
         /\ userInput' = text
         /\ analysis' = analyzeUserInput(text)
    /\ pc' = "done"
    /\ UNCHANGED <<options, GEMINI_API_KEY, genAI, freshContext, aiResult, aiIdx,
                   recommendations, heuristicResults, returned, calls, aiPrompt,
                   gateway, cacheVars, buildVars>>

AnalyzerNext == callAnalyzeUserInput \/ callCompleted

SpecAnalyzer == Init /\ [][AnalyzerNext]_vars

----------------------------------------------------------------------------
(* Properties *)

\* the number of whitespace-separated tokens of a text
TokenCount(s) ==
    Cardinality({i \in 1..Len(s) : s[i] # " " /\ (i = 1 \/ s[i - 1] = " ")})

\* a record built with a rationale argument (the AI path passes one, the
\* heuristic path passes none)
AIDerived(r) == r.aiExplanation # "undefined"

CountAIDerived(recs) == Len(SelectSeq(recs, AIDerived))

IsPrefix(s, t) == Len(s) <= Len(t) /\ SubSeq(t, 1, Len(s)) = s

WithPercentage(recs, m) == SelectSeq(recs, LAMBDA r : r.matchPercentage = m)

\* C1: in the list getRecommendations returns no catalog id appears twice.
C1_UniqueIds ==
    pc = "done" =>
        \A i, j \in 1..Len(returned) : i # j => returned[i].id # returned[j].id

\* C2: within one call searchMedia is invoked exactly once when fewer than 3
\* AI-derived records were resolved, and not at all when 3 or more were.
C2_FallbackIffInsufficient ==
    [][pc = "sufficiency" =>
          /\ calls.media = 0
          /\ pc' = "done"
          /\ calls'.media = IF CountAIDerived(recommendations) < 3 THEN 1 ELSE 0]_vars

C2_Witness ==
    /\ pc = "done"
    /\ calls.media = 1
    /\ aiResult.success
    /\ CountAIDerived(recommendations) = 2

\* C3: a query of fewer than 3 whitespace-separated tokens never leads to an
\* external call, whichever entry it came through.
C3_ShortQueryNoExternalCall ==
    TokenCount(userInput) < 3 => calls = NoCalls

\* C4: with the generative-service key absent, a call that reached the AI
\* step ends in an error raised to the caller, not in a returned list.
C4_MissingKeyRaises ==
    (~GEMINI_API_KEY /\ pc \in Ended \ {"alerted"}) => pc = "raised"

\* C5: every record of the returned list has an integer match percentage
\* greater than 30 and at most 100.
C5_PercentageInRange ==
    pc = "done" =>
        \A i \in 1..Len(returned) : returned[i].matchPercentage \in 31..100

C5_Witness ==
    /\ pc = "done"
    /\ \E i, j \in 1..Len(returned) :
         /\ returned[i].matchPercentage = 100
         /\ ~AIDerived(returned[i])
         /\ returned[j].matchPercentage = 70
         /\ AIDerived(returned[j])

\* C6: the returned list is ordered by non-increasing match percentage, and
\* records of equal match percentage keep the order in which they were put
\* into the recommendations array (AI-derived first, then heuristic).
C6_StableDescending ==
    pc = "done" =>
        /\ \A i \in 1..(Len(returned) - 1) :
             returned[i].matchPercentage >= returned[i + 1].matchPercentage
        /\ \A m \in {returned[i].matchPercentage : i \in 1..Len(returned)} :
             IsPrefix(WithPercentage(returned, m), WithPercentage(recommendations, m))
        /\ \A i, j \in 1..Len(returned) :
             (i < j /\ returned[i].matchPercentage = returned[j].matchPercentage
                    /\ AIDerived(returned[j])) => AIDerived(returned[i])

C6_Witness ==
    /\ pc = "done"
    /\ \E i \in 1..(Len(returned) - 1) :
         /\ returned[i].matchPercentage = returned[i + 1].matchPercentage
         /\ AIDerived(returned[i])
         /\ ~AIDerived(returned[i + 1])
    /\ \E i \in 1..(Len(recommendations) - 1) :
         recommendations[i].matchPercentage < recommendations[i + 1].matchPercentage

\* C7: the returned list never has more than 7 records.
C7_AtMostSeven == pc = "done" => Len(returned) <= 7

C7_Witness ==
    /\ pc = "done"
    /\ Len(recommendations) > 7
    /\ Len(returned) = 7

\* C8: if the AI call fails entirely, every record of the returned list is a
\* heuristic-derived one: built without a rationale, scored by the fallback.
C8_FailedAIOnlyHeuristic ==
    (pc = "done" /\ ~aiResult.success) =>
        \A i \in 1..Len(returned) :
            /\ ~AIDerived(returned[i])
            /\ \E k \in 1..Len(heuristicResults) : heuristicResults[k] = returned[i]

C8_Witness ==
    /\ pc = "done"
    /\ ~aiResult.success
    /\ genAI
    /\ Len(returned) > 0

\* C9: the merge of the fallback leaves the AI-derived records unchanged,
\* appends exactly the heuristic records whose id is not among them, and for
\* an id found by both paths the record kept is the AI-derived one, with its
\* rationale and base score 85.
C9_MergeKeepsAIRecord ==
    [][(pc = "sufficiency" /\ pc' = "done") =>
          /\ IsPrefix(recommendations, recommendations')
          /\ SubSeq(recommendations', Len(recommendations) + 1, Len(recommendations'))
               = SelectSeq(heuristicResults',
                           LAMBDA r : r.id \notin Ids(recommendations))
          /\ \A i \in 1..Len(recommendations') :
               (/\ recommendations'[i].id \in Ids(recommendations)
                /\ recommendations'[i].id \in Ids(heuristicResults'))
               => /\ Truthy(recommendations'[i].aiExplanation)
                  /\ recommendations'[i].matchPercentage = 85]_vars

\* C9, the part about the merge alone: the AI-derived records are left
\* unchanged and exactly the heuristic records with a new id are appended.
C9_MergeFrame ==
    [][(pc = "sufficiency" /\ pc' = "done") =>
          /\ IsPrefix(recommendations, recommendations')
          /\ SubSeq(recommendations', Len(recommendations) + 1, Len(recommendations'))
               = SelectSeq(heuristicResults',
                           LAMBDA r : r.id \notin Ids(recommendations))]_vars

\* C10: getRecommendations never raises to its caller.
C10_NeverRaises == pc # "raised"

\* C11: every record built for an AI candidate has match percentage 85,
\* whatever rationale text the candidate carries (an empty one included);
\* every record buildRecommendation builds without a rationale has match
\* percentage 70 and no aiExplanation.
C11_BaseScore ==
    /\ pc \in {"processAIRecommendations", "sufficiency"} =>
          \A i \in 1..Len(recommendations) :
              recommendations[i].matchPercentage = 85
    /\ \A k \in 1..Len(heuristicResults) :
          LET built == buildRecommendation(Media(heuristicResults[k].id),
                                           options.mediaType, "undefined")
          IN  built.matchPercentage = 70 /\ built.aiExplanation = "undefined"

\* x, in hundredths, rounds (half up) to the integer p
RoundsTo(x, p) == 100 * p <= x + 50 /\ x + 50 < 100 * p + 100

\* 60 + min(20, 2 * rating) + min(20, popularity / 100), capped at 100, in
\* hundredths (vote_average is in tenths)
ScoreInHundredths(media) ==
    LET rating == IF 20 * media.vote_average > 2000 THEN 2000
                  ELSE 20 * media.vote_average
        popular == IF media.popularity > 2000 THEN 2000 ELSE media.popularity
        sum == 6000 + rating + popular
    IN  IF sum > 10000 THEN 10000 ELSE sum

\* C12: the heuristic fallback builds records for at most the first 10
\* entries of the catalog search result, one per entry and in their order,
\* each with match percentage
\* round(min(100, 60 + min(20, 2*rating) + min(20, popularity/100))) in
\* place of the builder's base value.
C12_HeuristicScore ==
    gateway.op = "getHeuristicRecommendations" =>
        /\ Len(gateway.results) <= 10
        /\ Len(gateway.results) =
             IF Len(gateway.mediaItems) < 10 THEN Len(gateway.mediaItems) ELSE 10
        /\ \A i \in 1..Len(gateway.results) :
             /\ gateway.results[i].id = gateway.mediaItems[i].id
             /\ RoundsTo(ScoreInHundredths(gateway.mediaItems[i]),
                         gateway.results[i].matchPercentage)

C12_Witness ==
    /\ gateway.op = "getHeuristicRecommendations"
    /\ Len(gateway.mediaItems) > 10
    /\ Len(gateway.results) = 10
    /\ \E i, j, k \in 1..Len(gateway.results) :
         /\ gateway.results[i].matchPercentage = 100
         /\ gateway.mediaItems[i].popularity > 2000
         /\ gateway.results[j].matchPercentage = 90
         /\ gateway.mediaItems[j].vote_average = 95
         /\ gateway.mediaItems[j].popularity = 1050
         /\ gateway.results[k].matchPercentage = 60

\* C13: the discover query of searchMedia has minimum vote count 50 and sort
\* key vote_average.desc when hiddenGems is set, and minimum vote count 100
\* and sort key popularity.desc when it is unset; for the heuristic search
\* the flag is the one of the options getRecommendations passed on.
C13_HiddenGemsParams ==
    (/\ gateway.op \in {"searchMedia", "getHeuristicRecommendations"}
     /\ gateway.requests.discover # Undefined) =>
        LET params == gateway.requests.discover.params IN
        IF gateway.options.hiddenGems
          THEN params.vote_count_gte = 50 /\ params.sort_by = "vote_average.desc"
          ELSE params.vote_count_gte = 100 /\ params.sort_by = "popularity.desc"

C13_Witness ==
    /\ gateway.op = "getHeuristicRecommendations"
    /\ gateway.options.hiddenGems
    /\ gateway.requests.discover # Undefined
    /\ gateway.requests.discover.params.vote_count_gte = 50
    /\ Len(gateway.results) > 0

\* C14: a successful result of getAIRecommendations holds between 1 and 5
\* candidates; a transport failure, a parse failure, a response that is no
\* list, or an empty list gives success false with an empty candidate list,
\* and nothing is raised to the caller.
C14_TypedFailure ==
    gateway.op = "getAIRecommendations" =>
        /\ ~gateway.raised
        /\ gateway.result.success =>
             /\ Len(gateway.result.recommendations) \in 1..5
             /\ IsPrefix(gateway.result.recommendations, gateway.response.parsed)
        /\ (\/ gateway.response.kind \in {"transport", "syntax", "object"}
            \/ gateway.response.parsed = <<>>) =>
             /\ ~gateway.result.success
             /\ gateway.result.recommendations = <<>>

C14_Witness ==
    /\ gateway.op = "getAIRecommendations"
    /\ gateway.keyReady
    /\ Len(gateway.response.parsed) = 6
    /\ gateway.result.success
    /\ Len(gateway.result.recommendations) = 5

\* an entry of the parsed array with a title and an explanation (the year
\* is optional)
WellShaped(entry) == {"title", "explanation"} \subseteq DOMAIN entry

\* C15: a response that parses to a list with an entry that has not the
\* {title, year, rationale} shape is reported by getAIRecommendations with
\* success false, not as a successful candidate list.
C15_ShapeChecked ==
    (/\ gateway.op = "getAIRecommendations"
     /\ gateway.response.kind = "array"
     /\ \E i \in 1..Len(gateway.response.parsed) :
            ~WellShaped(gateway.response.parsed[i])) =>
        ~gateway.result.success

\* C16: the recency fetch (at most 15 titles) is issued iff the analysis
\* says wantsRecent, and it has completed before the AI call is issued; when
\* the fetch fails (it then gives no title) the AI call is still issued, its
\* prompt has no recent-release context, and the call goes on.
C16_RecencyBeforeAI ==
    [][/\ (pc = "idle" /\ pc' \notin {"idle", "alerted"}) =>
             /\ analysis'.wantsRecent = \E i \in 1..Len(userInput') :
                                           userInput'[i] = "new"
             /\ (pc' = "getRecentReleases") <=> analysis'.wantsRecent
             /\ pc' \in {"getRecentReleases", "getAIRecommendations"}
       /\ calls'.recent # calls.recent =>
             (pc = "getRecentReleases" \/ calls'.recent = 0)
       /\ pc = "getRecentReleases" =>
             /\ calls.recent = 0 /\ calls.ai = 0 /\ aiPrompt = Undefined
             /\ calls'.recent = 1
             /\ Len(freshContext'.list) <= 15
             /\ pc' = "getAIRecommendations"
       /\ pc = "getAIRecommendations" =>
             /\ calls.recent = IF analysis.wantsRecent THEN 1 ELSE 0
             /\ analysis.wantsRecent <=> freshContext # Undefined
             /\ calls.ai = 0
             /\ pc' \in {"processAIRecommendations", "sufficiency"}
             /\ GEMINI_API_KEY =>
                  /\ calls'.ai = 1
                  /\ aiPrompt' # Undefined
                  /\ IF analysis.wantsRecent /\ freshContext.list # <<>>
                       THEN /\ Len(aiPrompt'.contextSection) = Len(freshContext.list)
                            /\ \A i \in 1..Len(freshContext.list) :
                                   aiPrompt'.contextSection[i].title
                                       = freshContext.list[i]
                       ELSE aiPrompt'.contextSection = <<>>]_vars

C16_Witness ==
    /\ pc = "done"
    /\ analysis.wantsRecent
    /\ calls.recent = 1
    /\ freshContext.list = <<>>
    /\ calls.ai = 1
    /\ aiPrompt.contextSection = <<>>
    /\ Len(returned) > 0

\* the position of the first entry of s with catalog id `id`
FirstIndex(s, id) ==
    CHOOSE k \in 1..Len(s) : s[k].id = id /\ \A m \in 1..(k - 1) : s[m].id # id

\* the discover results followed by the search results of a searchMedia call
\* whose three requests were answered
AllResults(call) == call.outcome.discover.results \o call.outcome.search.results

Answered(outcome) ==
    /\ ~outcome.genres.error
    /\ ~outcome.discover.error
    /\ ~outcome.search.error

\* C17: the list searchMedia returns has no two entries with the same
\* catalog id, and its order is the first-seen order of the discover results
\* followed by the search results: an id found by both queries is at the
\* position of its discover occurrence.
C17_UnionFirstSeen ==
    gateway.op = "searchMedia" =>
        /\ \A i, j \in 1..Len(gateway.results) :
             i # j => gateway.results[i].id # gateway.results[j].id
        /\ Answered(gateway.outcome) =>
             LET all == AllResults(gateway) IN
             /\ Ids(gateway.results) \subseteq Ids(all)
             /\ gateway.options.mediaType # "anime" =>
                  Ids(gateway.results) = Ids(all)
             /\ \A i \in 1..Len(gateway.results) :
                  gateway.results[i] = all[FirstIndex(all, gateway.results[i].id)]
             /\ \A i, j \in 1..Len(gateway.results) :
                  i < j => FirstIndex(all, gateway.results[i].id)
                             < FirstIndex(all, gateway.results[j].id)

C17_Witness ==
    /\ gateway.op = "searchMedia"
    /\ Answered(gateway.outcome)
    /\ Len(gateway.outcome.discover.results) = 2
    /\ Len(gateway.outcome.search.results) = 2
    /\ gateway.outcome.search.results[1].id = gateway.outcome.discover.results[2].id
    /\ gateway.outcome.search.results[2].id \notin Ids(gateway.outcome.discover.results)
    /\ Len(gateway.results) = 3

\* C18: for media kind anime searchMedia queries the TV catalog; its
\* discover query has the animation genre id 16 among its genre ids and
\* original language 'ja', whatever language was detected; every entry it
\* returns, from either query, has genre id 16.
C18_AnimeConstraints ==
    (gateway.op = "searchMedia" /\ gateway.options.mediaType = "anime") =>
        /\ gateway.requests.genres = "genre/tv/list"
        /\ gateway.requests.discover # Undefined =>
             /\ gateway.requests.discover.endpoint = "discover/tv"
             /\ gateway.requests.search.endpoint = "search/tv"
             /\ \E i \in 1..Len(gateway.requests.discover.params.with_genres) :
                    gateway.requests.discover.params.with_genres[i] = 16
             /\ gateway.requests.discover.params.with_original_language = "ja"
        /\ \A i \in 1..Len(gateway.results) :
             16 \in gateway.results[i].genre_ids

C18_Witness ==
    /\ gateway.op = "searchMedia"
    /\ gateway.options.mediaType = "anime"
    /\ gateway.options.language = "hi"
    /\ gateway.options.genres = <<"drama", "sci-fi">>
    /\ gateway.requests.discover # Undefined
    /\ gateway.requests.discover.params.with_genres = <<18, 16>>
    /\ Answered(gateway.outcome)
    /\ \E i \in 1..Len(gateway.outcome.discover.results) :
           16 \notin gateway.outcome.discover.results[i].genre_ids
    /\ \E i \in 1..Len(gateway.outcome.search.results) :
           16 \notin gateway.outcome.search.results[i].genre_ids
    /\ Len(gateway.results) = 2

\* C19: if the genre-list fetch, the discover query or the free-text search
\* query fails, searchMedia returns an empty list and does not raise, also
\* when the other query of the pair answered with results; on a failed
\* request searchByTitle returns no entry, the enrichment operations return
\* an empty list (providers, reviews, videos) or nothing (series details),
\* and none of them raises.
C19_FailuresSwallowed ==
    /\ gateway # NoGatewayCall => ~gateway.raised
    /\ (gateway.op \in {"searchMedia", "getHeuristicRecommendations"}
          /\ ~Answered(gateway.outcome)) =>
          /\ gateway.op = "searchMedia" => gateway.results = <<>>
          /\ gateway.op = "getHeuristicRecommendations" =>
                gateway.mediaItems = <<>> /\ gateway.results = <<>>
    /\ (gateway.op = "searchByTitle" /\ gateway.response.error) =>
          gateway.result = Null
    /\ (gateway.op \in {"getWatchProviders", "getMediaReviews", "getMediaVideos"}
          /\ gateway.response.error) =>
          gateway.result = <<>>
    /\ (gateway.op = "getTVDetails" /\ gateway.response.error) =>
          gateway.result = Null

C19_Witness ==
    /\ gateway.op = "searchMedia"
    /\ ~gateway.outcome.genres.error
    /\ ~gateway.outcome.discover.error
    /\ Len(gateway.outcome.discover.results) = 2
    /\ gateway.outcome.search.error
    /\ gateway.results = <<>>

\* the region data getWatchProviders reads: of the region, else of US
RegionDataOf(call) ==
    IF call.region \in DOMAIN call.response.results
      THEN call.response.results[call.region]
      ELSE call.response.results["US"]

\* priority of a tier: free, then flatrate, then rent, then buy
TierRank(type) ==
    CASE type = "free" -> 1
      [] type = "flatrate" -> 2
      [] type = "rent" -> 3
      [] type = "buy" -> 4

\* the provider names listed in tier `type` of the region data
NamesIn(regionData, type) ==
    IF type \in DOMAIN regionData
      THEN {regionData[type][i].provider_name : i \in 1..Len(regionData[type])}
      ELSE {}

\* the position of the first occurrence of `name` in a tier's list
FirstNamed(tierOptions, name) ==
    CHOOSE k \in 1..Len(tierOptions) :
        /\ tierOptions[k].provider_name = name
        /\ \A m \in 1..(k - 1) : tierOptions[m].provider_name # name

\* C20: in the list getWatchProviders returns each provider name appears
\* once, with the highest-priority tier (free, flatrate, rent, buy) in which
\* the region data lists it, and the list is ordered by tier priority, then
\* by the order of occurrence within the tier.
C20_ProviderPriority ==
    (/\ gateway.op = "getWatchProviders"
     /\ ~gateway.response.error
     /\ DOMAIN gateway.response.results # {}) =>
        LET data == RegionDataOf(gateway)
            list == gateway.result
        IN  /\ \A i, j \in 1..Len(list) : i # j => list[i].name # list[j].name
            /\ {list[i].name : i \in 1..Len(list)}
                 = UNION {NamesIn(data, t) : t \in Tiers}
            /\ \A i \in 1..Len(list) :
                 /\ list[i].name \in NamesIn(data, list[i].type)
                 /\ \A t \in Tiers :
                      list[i].name \in NamesIn(data, t) =>
                          TierRank(list[i].type) <= TierRank(t)
            /\ \A i, j \in 1..Len(list) :
                 i < j =>
                   \/ TierRank(list[i].type) < TierRank(list[j].type)
                   \/ /\ list[i].type = list[j].type
                      /\ FirstNamed(data[list[i].type], list[i].name)
                           < FirstNamed(data[list[i].type], list[j].name)

C20_Witness ==
    /\ gateway.op = "getWatchProviders"
    /\ ~gateway.response.error
    /\ "IN" \in DOMAIN gateway.response.results
    /\ LET data == gateway.response.results["IN"] IN
       /\ DOMAIN data = {"free", "flatrate", "buy"}
       /\ NamesIn(data, "free") = {"b"}
       /\ NamesIn(data, "flatrate") = {"a", "b"}
       /\ NamesIn(data, "buy") = {"a"}
    /\ gateway.result = <<[name |-> "b", type |-> "free"],
                          [name |-> "a", type |-> "flatrate"]>>

\* keyword occurs in text at position i (both given by their characters)
OccursAt(text, keyword, i) ==
    /\ i + Len(keyword) - 1 <= Len(text)
    /\ \A j \in 1..Len(keyword) : LowerChar(text[i + j - 1]) = keyword[j]

Occurs(text, keyword) == \E i \in 1..Len(text) : OccursAt(text, keyword, i)

HasHighWord(text) ==
    \E k \in 1..Len(intensityWordsHigh) : Occurs(text, intensityWordsHigh[k])

HasLowWord(text) ==
    \E k \in 1..Len(intensityWordsLow) : Occurs(text, intensityWordsLow[k])

\* C21: the analyzer's intensity is 5 for a text with neither a high nor a
\* low intensity keyword, 8 for a text with a high and no low keyword, and 3
\* for a text with a low keyword, a high keyword being present or not; there
\* is no other value.
C21_Intensity ==
    pc = "done" =>
        /\ analysis.intensity \in {3, 5, 8}
        /\ analysis.intensity =
             IF HasLowWord(userInput) THEN 3
             ELSE IF HasHighWord(userInput) THEN 8
             ELSE 5

C21_Witness ==
    /\ pc = "done"
    /\ HasLowWord(userInput)
    /\ HasHighWord(userInput)
    /\ analysis.intensity = 3

\* some keyword of the dictionary entry is a substring of a lower-cased,
\* whitespace-separated token of the text: it occurs in the text and holds
\* no space
TagMatches(text, entry) ==
    \E k \in 1..Len(entry.keywords) :
        /\ \A j \in 1..Len(entry.keywords[k]) : entry.keywords[k][j] # " "
        /\ Occurs(text, entry.keywords[k])

MatchingTags(text, dictionary) ==
    {dictionary[e].tag : e \in {d \in 1..Len(dictionary) :
                                    TagMatches(text, dictionary[d])}}

\* C22: the analyzer gives a genre or emotion tag iff a keyword of the tag
\* is a substring of a whitespace-separated, lower-cased token of the text
\* (a keyword with a space never matches); for the query "funny comedy that
\* will make me laugh out loud" it gives exactly genres {comedy}, emotions
\* {joy}, intensity 5, no language and recency false.
C22_KeywordMatching ==
    pc = "done" =>
        /\ Elements(analysis.genres) = MatchingTags(userInput, genreKeywords)
        /\ Elements(analysis.emotions) = MatchingTags(userInput, emotionKeywords)
        /\ Len(analysis.genres) = Cardinality(Elements(analysis.genres))
        /\ Len(analysis.emotions) = Cardinality(Elements(analysis.emotions))
        /\ userInput = ScenarioQuery =>
             analysis = [genres |-> <<"comedy">>, emotions |-> <<"joy">>,
                         intensity |-> 5, language |-> "undefined",
                         wantsRecent |-> FALSE]

C22_Witness ==
    /\ pc = "done"
    /\ userInput = ScenarioQuery
    /\ analysis.genres = <<"comedy">>
    /\ analysis.emotions = <<"joy">>

\* a text with the keyword "science fiction" in it, which is no token
C22_WitnessSpacedKeyword ==
    /\ pc = "done"
    /\ Occurs(userInput, <<"s", "c", "i", "e", "n", "c", "e", " ",
                           "f", "i", "c", "t", "i", "o", "n">>)
    /\ analysis.genres = <<>>

-----------------------------------------------------------------------------
(* The genre caches: searchMedia calls interleaved at their awaits *)

\* the body of genre/tv/list; it shares ids and names with genre/movie/list
\* and has a genre of its own
TVGenreList ==
    << [id |-> ANIMATION_GENRE_ID, name |-> "Animation"],
       [id |-> 18, name |-> "Drama"],
       [id |-> 35, name |-> "Comedy"],
       [id |-> 10765, name |-> "Sci-Fi & Fantasy"] >>

\* what the genre-list endpoint of a kind answers: the request fails, or it
\* gives the list of the kind
GenreResponses(kind) ==
    {Failure, Ok(IF kind = "tv" THEN TVGenreList ELSE GenreList)}

\* the early returns of getGenreMaps never apply
cachedGenreMapNever(kind, movieMap, tvMap) == Null

\* the cache getGenreMaps looks at for a kind: Null when it has to fetch
cachedGenreMap(kind, movieMap, tvMap) ==
    IF kind = "movie" THEN movieMap ELSE tvMap

\* idToName: the reduce over response.data.genres
idToNameOf(genres) ==
    [id \in {genres[i].id : i \in 1..Len(genres)} |->
        LET i == CHOOSE k \in 1..Len(genres) :
                     /\ genres[k].id = id
                     /\ \A m \in (k + 1)..Len(genres) : genres[m].id # id
        IN  genres[i].name]

\* the cache is replaced by the entries of the last response
overwriteIdToName(cache, idToName) == idToName

\* { ...genreIdToNameCache, ...idToName }: spreading null adds nothing
mergeIdToName(cache, idToName) ==
    IF cache = Null
    THEN idToName
    ELSE [id \in DOMAIN cache \cup DOMAIN idToName |->
             IF id \in DOMAIN idToName THEN idToName[id] ELSE cache[id]]

\* a failed fetch leaves an empty genre map behind
genreMapAfterFetchCachingFailure(response, cached) ==
    IF response.error THEN << >> ELSE getGenreMaps(response.results)

\* the genre map of a kind once the awaited request has settled: a rejected
\* request raises out of getGenreMaps before any assignment
genreMapAfterFetch(response, cached) ==
    IF response.error THEN cached ELSE getGenreMaps(response.results)

\* the next searchMedia call to be made
nextSearch == CHOOSE c \in 1..MaxSearches :
                  /\ searches[c] = NotStarted
                  /\ \A d \in 1..(c - 1) : searches[d] # NotStarted

\* searchMedia up to the await inside getGenreMaps: the cached map is
\* returned at once, or the genre list is requested
startSearchMedia ==
    /\ \E c \in 1..MaxSearches : searches[c] = NotStarted
    /\ \E mediaType \in MediaTypes :
          LET c == nextSearch
              kind == tmdbMediaType(mediaType)
              cached == cachedGenreMap(kind, movieGenreMap, tvGenreMap)
          IN  IF cached # Null
              THEN /\ searches' = [searches EXCEPT ![c] =
                          [pc |-> "queries", mediaType |-> mediaType,
                           kind |-> kind, requested |-> FALSE,
                           genreMap |-> cached,
                           genreIdToName |-> genreIdToNameCache]]
                   /\ UNCHANGED genreRequests
              ELSE /\ searches' = [searches EXCEPT ![c] =
                          [pc |-> "fetching", mediaType |-> mediaType,
                           kind |-> kind, requested |-> TRUE]]
                   /\ genreRequests' = Append(genreRequests,
                          [call |-> c, kind |-> kind, event |-> "issued"])
    /\ UNCHANGED <<movieGenreMap, tvGenreMap, genreIdToNameCache>>
    /\ UNCHANGED <<pc, userInput, options, analysis, GEMINI_API_KEY, genAI,
                   freshContext, aiResult, aiIdx, recommendations,
                   heuristicResults, returned, calls, aiPrompt, gateway,
                   buildVars>>

\* the awaited genre-list request of a call settles: on a failure searchMedia
\* catches and returns [], on an answer getGenreMaps writes the caches and
\* searchMedia goes on to its queries
completeGenreFetch ==
    /\ \E c \in 1..MaxSearches :
          /\ searches[c] # NotStarted
          /\ searches[c].pc = "fetching"
          /\ \E response \in GenreResponses(searches[c].kind) :
                LET kind == searches[c].kind
                    movieMap == IF kind = "movie"
                                THEN genreMapAfterFetch(response, movieGenreMap)
                                ELSE movieGenreMap
                    tvMap == IF kind = "tv"
                             THEN genreMapAfterFetch(response, tvGenreMap)
                             ELSE tvGenreMap
                    idToName == IF response.error
                                THEN genreIdToNameCache
                                ELSE mergeIdToName(genreIdToNameCache,
                                         idToNameOf(response.results))
                IN  /\ movieGenreMap' = movieMap
                    /\ tvGenreMap' = tvMap
                    /\ genreIdToNameCache' = idToName
                    /\ genreRequests' = Append(genreRequests,
                           [call |-> c, kind |-> kind,
                            event |-> IF response.error THEN "failed"
                                                        ELSE "answered"])
                    /\ searches' = [searches EXCEPT ![c] =
                           IF response.error
                           THEN [pc |-> "returned", mediaType |-> @.mediaType,
                                 kind |-> kind, requested |-> TRUE,
                                 failed |-> TRUE, results |-> << >>]
                           ELSE [pc |-> "queries", mediaType |-> @.mediaType,
                                 kind |-> kind, requested |-> TRUE,
                                 genreMap |-> getGenreMaps(response.results),
                                 wrote |-> idToNameOf(response.results),
                                 genreIdToName |-> idToName]]
    /\ UNCHANGED <<pc, userInput, options, analysis, GEMINI_API_KEY, genAI,
                   freshContext, aiResult, aiIdx, recommendations,
                   heuristicResults, returned, calls, aiPrompt, gateway,
                   buildVars>>

GenreCacheNext == startSearchMedia \/ completeGenreFetch

SpecGenreCache == Init /\ [][GenreCacheNext]_vars

\* the genre map cached for a kind
CacheOf(kind) == IF kind = "movie" THEN movieGenreMap ELSE tvGenreMap

Populated(map) == map # Null /\ DOMAIN map # {}

\* a searchMedia call is made in this step
Starts(c) == searches[c] = NotStarted /\ searches'[c] # NotStarted

\* C23: once the genre map of a kind has been populated by a successful
\* fetch, every getGenreMaps call made later for that kind returns the cached
\* map and issues no request, and the map of the kind is never reset to empty
C23_CacheNeverInvalidated ==
    [][/\ Populated(movieGenreMap) => Populated(movieGenreMap')
       /\ Populated(tvGenreMap) => Populated(tvGenreMap')
       /\ \A c \in 1..MaxSearches :
             (Starts(c) /\ Populated(CacheOf(searches'[c].kind)))
             => /\ searches'[c].pc = "queries"
                /\ ~searches'[c].requested
                /\ searches'[c].genreMap = CacheOf(searches'[c].kind)
                /\ genreRequests' = genreRequests]_vars

\* a call for tv was answered from the cache after a fetch had populated it
C23_Witness ==
    \E c \in 1..MaxSearches :
        /\ searches[c].pc = "queries"
        /\ ~searches[c].requested
        /\ searches[c].kind = "tv"
        /\ searches[c].genreMap = tvGenreMap
        /\ \E i \in 1..Len(genreRequests) :
              /\ genreRequests[i].kind = "tv"
              /\ genreRequests[i].event = "answered"

\* the calls that fetched a genre list and wrote the caches
Writers == {c \in 1..MaxSearches :
               searches[c].pc = "queries" /\ searches[c].requested}

NoFetchPending == \A c \in 1..MaxSearches : searches[c].pc # "fetching"

\* C24: whatever the interleaving of concurrent first-time getGenreMaps calls
\* (of one kind, or movie and tv together), once all of them have completed
\* the id-to-name cache holds every entry written by every call
C24_UnionOfWrites ==
    NoFetchPending =>
        \A c \in Writers :
            \A id \in DOMAIN searches[c].wrote :
                /\ genreIdToNameCache # Null
                /\ id \in DOMAIN genreIdToNameCache
                /\ genreIdToNameCache[id] = searches[c].wrote[id]

\* two calls of one kind both fetched (the second was made before the first
\* was answered), a call of the other kind fetched too, and all three are done
C24_Witness ==
    /\ NoFetchPending
    /\ \E c1, c2, c3 \in Writers :
          /\ c1 # c2
          /\ searches[c1].kind = searches[c2].kind
          /\ searches[c3].kind # searches[c1].kind

\* the genre-list request of a call fails in this step
FetchFails(c) == searches[c].pc = "fetching" /\ searches'[c].pc = "returned"

\* C30: a failed genre-list fetch writes none of the caches (the map of its
\* kind stays unpopulated, those of the other kind stay as they are) and
\* searchMedia returns []; the failure is not cached: the next searchMedia
\* call for the kind, made while its map is unpopulated, fetches the list again
C30_FailureNotCached ==
    [][\A c \in 1..MaxSearches :
          /\ FetchFails(c)
             => /\ UNCHANGED <<movieGenreMap, tvGenreMap, genreIdToNameCache>>
                /\ searches'[c].results = << >>
          /\ (Starts(c) /\ CacheOf(searches'[c].kind) = Null)
             => /\ searches'[c].pc = "fetching"
                /\ searches'[c].requested
                /\ genreRequests' = Append(genreRequests,
                       [call |-> c, kind |-> searches'[c].kind,
                        event |-> "issued"])]_vars

\* a fetch for movie failed, then a later call for movie fetched again and
\* was answered, with the TV caches still unpopulated
C30_Witness ==
    /\ tvGenreMap = Null
    /\ movieGenreMap # Null
    /\ \E i, j, k \in 1..Len(genreRequests) :
          /\ i < j /\ j < k
          /\ genreRequests[i].kind = "movie"
          /\ genreRequests[i].event = "failed"
          /\ genreRequests[j].kind = "movie"
          /\ genreRequests[j].event = "issued"
          /\ genreRequests[j].call # genreRequests[i].call
          /\ genreRequests[k].call = genreRequests[j].call
          /\ genreRequests[k].event = "answered"
          /\ \A m \in 1..(j - 1) : genreRequests[m].call = genreRequests[i].call

-----------------------------------------------------------------------------
(* processAIRecommendations and buildRecommendation, await by await *)

\* the AI gives at most MaxCandidates candidates here
MaxCandidates == 2

\* the candidate lists processAIRecommendations is called with
CandidateLists == SeqsUpTo(Candidates, MaxCandidates)

\* the loop is left at the first candidate without a catalog match
afterNoMatchBreak(idx, aiRecs) == Len(aiRecs) + 1

\* if (!media) continue: the loop goes on with the next candidate
afterNoMatch(idx, aiRecs) == idx + 1

\* the series details are never requested
enrichmentCallsNoDetails(tmdbType) ==
    {"getWatchProviders", "getMediaReviews", "getMediaVideos"}

\* the sub-calls handed to Promise.all: Promise.resolve(null) stands in for
\* the series details unless the catalog kind is tv
enrichmentCalls(tmdbType) ==
    {"getWatchProviders", "getMediaReviews", "getMediaVideos"}
        \cup (IF tmdbType = "tv" THEN {"getTVDetails"} ELSE {})

\* the for loop reaches candidate idx: the loop is over, or rec.title of a
\* null entry raises, or searchByTitle is called and awaited
resolveCandidate(idx, aiRecs, results, events) ==
    /\ aiIdx' = idx
    /\ recommendations' = results
    /\ foundMedia' = Null
    /\ pending' = {}
    /\ IF idx > Len(aiRecs)
       THEN pc' = "resolved" /\ log' = events
       ELSE IF aiRecs[idx] = Null
       THEN pc' = "raised" /\ log' = events
       ELSE /\ pc' = "searchByTitle"
            /\ log' = Append(events,
                   [event |-> "searchIssued", candidate |-> idx])

callProcessAIRecommendations ==
    /\ pc = "idle"
    /\ \E aiRecs \in CandidateLists, mediaType \in MediaTypes :
          /\ options' = [options EXCEPT !.mediaType = mediaType]
          /\ aiResult' = [success |-> TRUE, recommendations |-> aiRecs]
          /\ resolveCandidate(1, aiRecs, << >>, << >>)
    /\ UNCHANGED <<userInput, analysis, GEMINI_API_KEY, genAI, freshContext,
                   heuristicResults, returned, calls, aiPrompt, gateway,
                   cacheVars, settled>>

\* the awaited searchByTitle settles: without a match the candidate is
\* skipped, with one buildRecommendation issues its sub-calls and awaits
completeSearchByTitle ==
    /\ pc = "searchByTitle"
    /\ \E response \in TitleResponses :
          LET media == searchByTitle(response)
              aiRecs == aiResult.recommendations
              events == Append(log, [event |-> "searchDone",
                                     candidate |-> aiIdx,
                                     matched |-> media # Null])
          IN  IF media = Null
              THEN /\ resolveCandidate(afterNoMatch(aiIdx, aiRecs), aiRecs,
                                       recommendations, events)
                   /\ UNCHANGED settled
              ELSE /\ pc' = "buildRecommendation"
                   /\ foundMedia' = media
                   /\ pending' = enrichmentCalls(tmdbMediaType(options.mediaType))
                   /\ settled' = {}
                   /\ log' = Append(events, [event |-> "buildIssued",
                                             candidate |-> aiIdx])
                   /\ UNCHANGED <<aiIdx, recommendations>>
    /\ UNCHANGED <<userInput, options, analysis, GEMINI_API_KEY, genAI,
                   freshContext, aiResult, heuristicResults, returned, calls,
                   aiPrompt, gateway, cacheVars>>

\* one of the sub-calls settles; each of them catches the failure of its
\* request and fulfils with an empty value
settleEnrichment ==
    /\ pc = "buildRecommendation"
    /\ \E call \in pending, failed \in BOOLEAN :
          /\ pending' = pending \ {call}
          /\ settled' = settled \cup {[call |-> call, failed |-> failed]}
    /\ UNCHANGED <<pc, userInput, options, analysis, GEMINI_API_KEY, genAI,
                   freshContext, aiResult, aiIdx, recommendations,
                   heuristicResults, returned, calls, aiPrompt, gateway,
                   cacheVars, foundMedia, log>>

\* Promise.all fulfils once every sub-call has: the record is assembled and
\* pushed, and the loop goes on
assembleRecord ==
    /\ pc = "buildRecommendation"
    /\ pending = {}
    /\ LET aiRecs == aiResult.recommendations
           fullRec == buildRecommendation(foundMedia, options.mediaType,
                                          aiRecs[aiIdx].explanation)
       IN  resolveCandidate(aiIdx + 1, aiRecs,
                            Append(recommendations, fullRec),
                            Append(log, [event |-> "buildDone",
                                         candidate |-> aiIdx]))
    /\ UNCHANGED <<userInput, options, analysis, GEMINI_API_KEY, genAI,
                   freshContext, aiResult, heuristicResults, returned, calls,
                   aiPrompt, gateway, cacheVars, settled>>

\* the caller has the results (or the TypeError); the next call starts afresh
resolveCompleted ==
    /\ pc \in {"resolved", "raised"}
    /\ pc' = "idle"
    /\ options' = [mediaType |-> "movie", hiddenGems |-> FALSE, region |-> "IN"]
    /\ aiResult' = Undefined
    /\ aiIdx' = 0
    /\ recommendations' = << >>
    /\ log' = << >>
    /\ settled' = {}
    /\ UNCHANGED <<userInput, analysis, GEMINI_API_KEY, genAI, freshContext,
                   heuristicResults, returned, calls, aiPrompt, gateway,
                   cacheVars, foundMedia, pending>>

ResolveNext ==
    \/ callProcessAIRecommendations
    \/ completeSearchByTitle
    \/ settleEnrichment
    \/ assembleRecord
    \/ resolveCompleted

SpecResolve == Init /\ [][ResolveNext]_vars

\* the positions of the log with an event of a candidate
Events(event, i) ==
    {p \in 1..Len(log) : log[p].event = event /\ log[p].candidate = i}

Resolving == pc \in {"searchByTitle", "buildRecommendation", "resolved", "raised"}

\* C25: the candidates are resolved one after another in the order of the AI:
\* the searchByTitle call for candidate i+1 is issued only after that of
\* candidate i has completed and, when it matched, after the build of
\* candidate i has completed; a candidate without a catalog match gives no
\* record and the next candidate is looked up right after it, so that a call
\* that returns has looked up every candidate
C25_SequentialResolution ==
    Resolving =>
        LET aiRecs == aiResult.recommendations IN
        /\ \A p \in 1..Len(log) :
              (log[p].event = "searchIssued" /\ log[p].candidate > 1) =>
                  LET i == log[p].candidate - 1 IN
                  /\ \E q \in Events("searchDone", i) : q < p
                  /\ \A q \in Events("buildIssued", i) :
                        \E r \in Events("buildDone", i) : q < r /\ r < p
        /\ \A p \in 1..Len(log) :
              (log[p].event = "searchDone" /\ ~log[p].matched) =>
                  LET i == log[p].candidate IN
                  /\ Events("buildIssued", i) = {}
                  /\ (i < Len(aiRecs) /\ aiRecs[i + 1] # Null) =>
                        /\ p < Len(log)
                        /\ log[p + 1] = [event |-> "searchIssued",
                                         candidate |-> i + 1]
        /\ pc = "resolved" =>
              \A i \in 1..Len(aiRecs) : Events("searchIssued", i) # {}
        /\ Len(recommendations) =
              Cardinality({p \in 1..Len(log) : log[p].event = "buildDone"})

\* the first of two candidates had no catalog match, the second was looked
\* up after it and built, and the call returned its record
C25_Witness ==
    /\ pc = "resolved"
    /\ Len(aiResult.recommendations) = 2
    /\ \E p \in Events("searchDone", 1) : ~log[p].matched
    /\ Events("buildDone", 2) # {}
    /\ Len(recommendations) = 1

\* the sub-calls buildRecommendation has to wait for, by media kind
ExpectedSubCalls(mediaType) ==
    {"getWatchProviders", "getMediaReviews", "getMediaVideos"}
        \cup (IF mediaType \in {"tv", "anime"} THEN {"getTVDetails"} ELSE {})

SettledCalls == {s.call : s \in settled}

\* C26: while a record is built the sub-calls issued are providers, reviews
\* and videos, and series details iff the media kind is tv or anime; the
\* record is assembled only when none of them is pending, in whatever order
\* they settled
C26_AllSettledBeforeAssembly ==
    [][/\ pc' = "buildRecommendation" =>
              /\ pending' \cup {s.call : s \in settled'}
                     = ExpectedSubCalls(options'.mediaType)
              /\ pending' \cap {s.call : s \in settled'} = {}
       /\ Len(recommendations') = Len(recommendations) + 1 =>
              /\ pending = {}
              /\ SettledCalls = ExpectedSubCalls(options.mediaType)]_vars

\* an anime record was assembled after its four sub-calls had settled, the
\* series details among them and one of the requests having failed
C26_Witness ==
    /\ options.mediaType = "anime"
    /\ Len(recommendations) = 1
    /\ Len(log) > 0
    /\ log[Len(log)].event = "buildDone"
    /\ pending = {}
    /\ Cardinality(SettledCalls) = 4
    /\ \E s \in settled : s.failed

-----------------------------------------------------------------------------
(* Two getRecommendations calls side by side: what of the query reaches the *)
(* heuristic catalog search                                                  *)

\* the queries of the two calls: "comedy", "happy comedy", "intense comedy",
\* "mild comedy", "drama", "sad drama", "hindi comedy"
PairQueries ==
    { <<"c", "o", "m", "e", "d", "y">>,
      <<"h", "a", "p", "p", "y", " ", "c", "o", "m", "e", "d", "y">>,
      <<"i", "n", "t", "e", "n", "s", "e", " ", "c", "o", "m", "e", "d", "y">>,
      <<"m", "i", "l", "d", " ", "c", "o", "m", "e", "d", "y">>,
      <<"d", "r", "a", "m", "a">>,
      <<"s", "a", "d", " ", "d", "r", "a", "m", "a">>,
      <<"h", "i", "n", "d", "i", " ", "c", "o", "m", "e", "d", "y">> }

\* const analysis = analyzeUserInput(userInput)
PairAnalyses == [query \in PairQueries |-> analyzeUserInput(query)]

\* what the requests of searchMedia give to both calls
PairOutcomes ==
    {[genres |-> Failure]} \cup
    {[genres |-> Ok(GenreList), discover |-> d, search |-> s] :
        d \in {Failure, Ok(MediaList(<<1, 2>>))},
        s \in {Failure, Ok(MediaList(<<2, 3>>))}}

\* the params of the search/{movie,tv} request
searchParams(query) ==
    [query |-> query, language |-> "en-US", page |-> 1, include_adult |-> FALSE]

\* the fallback of one getRecommendations call: the analysis of the query,
\* the requests of searchMedia(query, searchOptions) and the records built
heuristicCall(query, opts, outcome) ==
    LET analyzed == PairAnalyses[query]
        requests == searchRequests(searchOptions(analyzed, opts), outcome)
        mediaItems == searchMedia(outcome, opts.mediaType)
    IN  [query |-> query,
         analysis |-> analyzed,
         requests |-> [genres |-> requests.genres,
                       discover |-> requests.discover,
                       search |-> IF outcome.genres.error THEN Undefined
                                  ELSE [endpoint |-> requests.search.endpoint,
                                        params |-> searchParams(query)]],
         results |-> getHeuristicRecommendations(mediaItems, opts.mediaType)]

\* two calls with the same options whose requests get the same responses
callGetRecommendationsTwice ==
    /\ gateway = NoGatewayCall
    /\ \E first \in PairQueries, second \in PairQueries, opts \in OptionsSet,
          outcome \in PairOutcomes :
         gateway' = [op |-> "getRecommendationsTwice",
                     options |-> opts,
                     outcome |-> outcome,
                     first |-> heuristicCall(first, opts, outcome),
                     second |-> heuristicCall(second, opts, outcome),
                     raised |-> FALSE]
    /\ UNCHANGED <<engineVars, genAI, cacheVars, buildVars>>

PairNext == callGetRecommendationsTwice \/ gatewayReturn

SpecPair == Init /\ [][PairNext]_vars

\* two analyses with the same genre tags and language
SameGenresAndLanguage(a, b) ==
    a.genres = b.genres /\ a.language = b.language

IsPair == gateway.op = "getRecommendationsTwice"

Percentages(results) ==
    [i \in 1..Len(results) |->
        [id |-> results[i].id, matchPercentage |-> results[i].matchPercentage]]

\* C27 as stated: two calls whose analyses differ only in emotion tags or
\* intensity issue the same parameters to the heuristic catalog search, those
\* of the free-text search request included
C27_SameRequests ==
    (IsPair /\ SameGenresAndLanguage(gateway.first.analysis,
                                     gateway.second.analysis))
        => gateway.first.requests = gateway.second.requests

\* C27, amended: two calls whose analyses differ only in emotion tags or
\* intensity request the same genre list and issue the same discover
\* parameters, their free-text search requests go to the same endpoint and
\* differ at most in the query text, and for the same catalog responses the
\* heuristic records have the same ids and match percentages
C27_SameDiscoverAndScores ==
    (IsPair /\ SameGenresAndLanguage(gateway.first.analysis,
                                     gateway.second.analysis))
        => LET a == gateway.first
               b == gateway.second
           IN  /\ a.requests.genres = b.requests.genres
               /\ a.requests.discover = b.requests.discover
               /\ ~gateway.outcome.genres.error =>
                     /\ a.requests.search.endpoint = b.requests.search.endpoint
                     /\ [a.requests.search.params EXCEPT !.query = << >>]
                            = [b.requests.search.params EXCEPT !.query = << >>]
               /\ Percentages(a.results) = Percentages(b.results)

\* one call analysed joy at intensity 5, the other no emotion at intensity 8,
\* both the genre comedy, and both got three heuristic records
C27_Witness ==
    /\ IsPair
    /\ SameGenresAndLanguage(gateway.first.analysis, gateway.second.analysis)
    /\ gateway.first.analysis.genres = <<"comedy">>
    /\ gateway.first.analysis.emotions = <<"joy">>
    /\ gateway.first.analysis.intensity = DefaultIntensity
    /\ gateway.second.analysis.emotions = << >>
    /\ gateway.second.analysis.intensity = HighIntensity
    /\ Len(gateway.first.results) = 3

\* the records resolved on the AI path in the call that has returned
AIRecords == SelectSeq(recommendations, AIDerived)

\* the heuristic records the merge added
AddedRecords == SelectSeq(recommendations, LAMBDA r : ~AIDerived(r))

\* C28 as stated: every record resolved on the AI path is in the returned
\* list
C28_AIRecordsReturned ==
    pc = "done" =>
        \A i \in 1..Len(AIRecords) :
            \E j \in 1..Len(returned) : returned[j] = AIRecords[i]

\* the number of records the stable descending sort puts before the i-th AI
\* record: AI records of higher percentage, earlier AI records of the same
\* percentage, and added heuristic records of higher percentage
AIRank(i) ==
    Cardinality({k \in 1..Len(AIRecords) :
                    \/ AIRecords[k].matchPercentage > AIRecords[i].matchPercentage
                    \/ /\ AIRecords[k].matchPercentage = AIRecords[i].matchPercentage
                       /\ k < i})
    + Cardinality({h \in 1..Len(AddedRecords) :
                    AddedRecords[h].matchPercentage > AIRecords[i].matchPercentage})

\* C28, amended: the filter drops no AI-derived record, and an AI-derived
\* record is in the returned list, at the place after the records that rank
\* before it, unless 7 or more records rank before it (AI records of higher
\* percentage or of the same percentage and resolved earlier, and heuristic
\* records of higher percentage); then the 7 records returned all have at
\* least its percentage.  Without a fallback every AI record is returned.
C28_AIRecordReturnedUnlessOutranked ==
    pc = "done" =>
        /\ \A i \in 1..Len(AIRecords) :
              /\ AIRecords[i].matchPercentage > MinMatchPercentage
              /\ IF AIRank(i) < MaxResults
                 THEN /\ Len(returned) > AIRank(i)
                      /\ returned[AIRank(i) + 1] = AIRecords[i]
                 ELSE /\ Len(returned) = MaxResults
                      /\ \A j \in 1..Len(returned) :
                            returned[j].matchPercentage
                                >= AIRecords[i].matchPercentage
        /\ AddedRecords = << >> =>
              Len(returned) = Len(AIRecords)

\* the fallback added seven heuristic records above 85, and the AI-derived
\* record (rationale given, 85) is not among the 7 returned
C28_Witness ==
    /\ pc = "done"
    /\ Len(returned) = MaxResults
    /\ \E i \in 1..Len(AIRecords) :
          /\ AIRecords[i].aiExplanation = "why"
          /\ AIRecords[i].matchPercentage = AIBaseScore
          /\ AIRank(i) >= MaxResults
          /\ \A j \in 1..Len(returned) : returned[j].id # AIRecords[i].id

\* the lowest percentage a record can reach the final filter with
MinReached == 60

\* C29: every record that reaches the final filter of getRecommendations has
\* match percentage at least 60: 85 if it is AI-derived, 60 to 100 if it is
\* heuristic, so the filter on match percentage > 30 removes none
C29_AtLeastSixty ==
    pc = "done" =>
        /\ \A i \in 1..Len(recommendations) :
              LET r == recommendations[i] IN
              /\ r.matchPercentage >= MinReached
              /\ AIDerived(r) => r.matchPercentage = AIBaseScore
              /\ ~AIDerived(r) => r.matchPercentage \in MinReached..100
        /\ filterResults(recommendations) = recommendations

\* the part of C29 that holds: no record is below 60 and the filter removes
\* none
C29_FilterKeepsAll ==
    pc = "done" =>
        /\ \A i \in 1..Len(recommendations) :
              recommendations[i].matchPercentage \in MinReached..100
        /\ filterResults(recommendations) = recommendations

====
